---- MODULE Spec2Model ----
(***************************************************************************)
(* NooDS interpreter core (src/src/interpreter.cpp): the two ARM CPUs,     *)
(* their interrupt registers, exception entry, and the frame drive loops   *)
(* that interleave opcode execution with the scheduler's task queue.       *)
(*                                                                         *)
(* A 32-bit machine word is the pair <<hi, lo>> of its 16-bit halves, so   *)
(* that the full uint32_t range (0xFFFF0000, the uint32_t value of -1) is  *)
(* represented exactly and additions wrap modulo 2^32.                     *)
(***************************************************************************)
EXTENDS Integers, Sequences, FiniteSets, TLC

VARIABLES
    interpreter,    \* core.interpreter[2]: 0 = ARM9, 1 = ARM7
    tasks,          \* core.tasks: the scheduler's queue, earliest first
    globalCycles,   \* core.globalCycles
    running,        \* core.running (atomic flag)
    gbaMode,        \* core.gbaMode
    bios,           \* Interpreter::bios != nullptr (HLE BIOS in use)
    exceptionAddr,  \* core.cp15.getExceptionAddr()
    pc,             \* position of the emulation thread in the drive loop
    memory,         \* guest data memory: the words written, as address and value
    last,           \* history: the last operation and the state it started from
    track           \* history: measurements of the drive loop

vars == <<interpreter, tasks, globalCycles, running, gbaMode, bios,
          exceptionAddr, pc, memory, last, track>>

-----------------------------------------------------------------------------
(* 32-bit words *)

Half == 2^16

W(hi, lo) == <<hi, lo>>

Hi(w) == w[1]

Lo(w) == w[2]

Zero32 == W(0, 0)

\* (uint32_t)-1
Max32 == W(Half - 1, Half - 1)

RECURSIVE And16(_, _)
And16(a, b) ==
    IF a = 0 \/ b = 0 THEN 0
    ELSE (IF a % 2 = 1 /\ b % 2 = 1 THEN 1 ELSE 0) + 2 * And16(a \div 2, b \div 2)

And32(x, y) == W(And16(Hi(x), Hi(y)), And16(Lo(x), Lo(y)))

Or32(x, y) == W(Hi(x) + Hi(y) - And16(Hi(x), Hi(y)),
                Lo(x) + Lo(y) - And16(Lo(x), Lo(y)))

Not32(x) == W(Half - 1 - Hi(x), Half - 1 - Lo(x))

Add32(x, y) ==
    LET lo == Lo(x) + Lo(y)
        hi == Hi(x) + Hi(y) + (lo \div Half)
    IN  W(hi % Half, lo % Half)

Sub32(x, y) == Add32(x, Add32(Not32(y), W(0, 1)))

Lt32(x, y) == Hi(x) < Hi(y) \/ (Hi(x) = Hi(y) /\ Lo(x) < Lo(y))

Le32(x, y) == x = y \/ Lt32(x, y)

Min32(x, y) == IF Lt32(y, x) THEN y ELSE x

RECURSIVE Pow2(_)
Pow2(n) == IF n = 0 THEN 1 ELSE 2 * Pow2(n - 1)

\* BIT(i): (1 << i)
BIT(i) == IF i < 16 THEN W(0, Pow2(i)) ELSE W(Pow2(i - 16), 0)

\* x & BIT(i), as a truth value
TestBit(x, i) == And32(x, BIT(i)) # Zero32

\* a small non-negative int converted to uint32_t
U32(n) == W(n \div Half, n % Half)

-----------------------------------------------------------------------------
(* Guest memory and the scheduler: collaborators of the interpreter *)

\* The special HLE BIOS opcode
HleReturn == W(\hFF00, 0)

\* The return address handleHleIrq leaves in R14: cpu ? 0x00000000 : 0xFFFF0000
HleSentinel(cpu) == IF cpu = 1 THEN Zero32 ELSE W(\hFFFF, 0)

\* memory.read<uint32_t>(cpu, address): the guest image holds, in every word,
\* an always-executed opcode (condition field 0xE) whose other 28 bits are
\* those of the word's own address
MemRead32(cpu, address) ==
    LET a == And32(address, Not32(W(0, 3)))
    IN  W(\hE000 + (Hi(a) % \h1000), Lo(a))

\* memory.write<uint32_t>(cpu, address, value) on the word-aligned address
MemWrite32(C, cpu, address, value) ==
    LET a == And32(address, Not32(W(0, 3)))
    IN  [C EXCEPT !.memory = {e \in @ : e.addr # a} \cup {[addr |-> a, value |-> value]}]

\* memory.read<uint32_t>(cpu, address): the word last written there; or, with
\* the HLE BIOS active, the return opcode the BIOS keeps at the address its
\* IRQ entry leaves in R14; or the image's word
MemLoad32(C, cpu, address) ==
    LET a == And32(address, Not32(W(0, 3)))
    IN  IF \E e \in C.memory : e.addr = a
        THEN (CHOOSE e \in C.memory : e.addr = a).value
        ELSE IF C.bios /\ a = HleSentinel(cpu) THEN HleReturn
        ELSE MemRead32(cpu, address)

\* memory.read<uint16_t>(cpu, address): every halfword holds the low half of
\* its own address
MemRead16(cpu, address) == W(0, Lo(And32(address, Not32(W(0, 1)))))

\* memory.read<uint16_t>(cpu, address) of a halfword that may have been
\* written: the half of the written word the address selects (little endian)
MemLoad16(C, cpu, address) ==
    LET a == And32(address, Not32(W(0, 3)))
    IN  IF \E e \in C.memory : e.addr = a
        THEN LET v == (CHOOSE e \in C.memory : e.addr = a).value
             IN  IF (Lo(address) \div 2) % 2 = 1 THEN W(0, Hi(v)) ELSE W(0, Lo(v))
        ELSE MemRead16(cpu, address)

\* Task(&interruptTask, delay) of interpreter c
InterruptTask(c) == [kind |-> "interrupt", cpu |-> c]

\* The number of queued entries whose stamp is <= stamp (std::upper_bound)
RECURSIVE UpperBound(_, _)
UpperBound(q, stamp) ==
    IF q = <<>> \/ Lt32(stamp, Head(q).cycles) THEN 0
    ELSE 1 + UpperBound(Tail(q), stamp)

InsertAt(q, i, e) == SubSeq(q, 1, i) \o <<e>> \o SubSeq(q, i + 1, Len(q))

\* core->schedule(Task(task, delay)): the entry is stamped globalCycles + delay
\* and inserted after every entry whose stamp is not greater. Its id is its
\* insertion rank among the entries queued (history: the code keeps none).
schedule(C, task, delay) ==
    LET stamp == Add32(C.globalCycles, U32(delay))
        entry == [cycles |-> stamp, task |-> task, id |-> Len(C.tasks) + 1]
    IN  [C EXCEPT !.tasks = InsertAt(C.tasks, UpperBound(C.tasks, stamp), entry)]

\* core.tasks.erase(core.tasks.begin()); the insertion ranks of the entries
\* that stay are closed up
Erase(q) ==
    [i \in 1..(Len(q) - 1) |->
        [q[i + 1] EXCEPT !.id = IF @ > q[1].id THEN @ - 1 ELSE @]]

-----------------------------------------------------------------------------
(* Interpreter: registers *)

\* registers[i] = &registersUsr[i]
UsrPointers == [i \in 0..15 |-> <<"registersUsr", i>>]

\* *registers[n]
Reg(I, n) == I.regs[I.registers[n][1]][I.registers[n][2]]

\* *registers[n] = value
SetReg(I, n, value) ==
    [I EXCEPT !.regs[I.registers[n][1]][I.registers[n][2]] = value]

\* The state of an Interpreter object after its constructor has run
Interpreter(c) ==
    [cpu       |-> c,
     registers |-> UsrPointers,
     regs      |-> [registersUsr |-> [i \in 0..15 |-> Zero32],
                    registersFiq |-> [i \in 0..6 |-> Zero32],
                    registersIrq |-> [i \in 0..1 |-> Zero32],
                    registersSvc |-> [i \in 0..1 |-> Zero32],
                    registersAbt |-> [i \in 0..1 |-> Zero32],
                    registersUnd |-> [i \in 0..1 |-> Zero32]],
     spsrs     |-> [spsrFiq |-> Zero32, spsrIrq |-> Zero32, spsrSvc |-> Zero32,
                    spsrAbt |-> Zero32, spsrUnd |-> Zero32],
     cpsr      |-> Zero32,
     spsr      |-> "nullptr",
     pipeline  |-> <<Zero32, Zero32>>,
     halted    |-> 0,
     cycles    |-> Zero32,
     ime       |-> 0,
     ie        |-> Zero32,
     irf       |-> Zero32,
     postFlg   |-> 0]

\* The core as the interpreter's functions see it; ret carries the value the
\* last int-returning function returned
Core ==
    [interpreter   |-> interpreter,
     tasks         |-> tasks,
     globalCycles  |-> globalCycles,
     gbaMode       |-> gbaMode,
     bios          |-> bios,
     exceptionAddr |-> exceptionAddr,
     memory        |-> memory,
     ret           |-> 0]

\* The assignment of a core value to the variables the functions can change
Becomes(C) ==
    /\ interpreter' = C.interpreter
    /\ tasks' = C.tasks
    /\ globalCycles' = C.globalCycles

-----------------------------------------------------------------------------
(* Interpreter: CPSR, pipeline, exceptions *)

\* The bindings one case of setCpsr's switch makes: R8-R12 to gpBank[gpBase..],
\* R13-R14 to lrBank[lrBase..], and the spsr pointer
Bind(I, gpBank, gpBase, lrBank, lrBase, spsrName) ==
    [I EXCEPT !.registers =
                  [i \in 0..15 |->
                      IF i \in 8..12 THEN <<gpBank, gpBase + (i - 8)>>
                      ELSE IF i \in 13..14 THEN <<lrBank, lrBase + (i - 13)>>
                      ELSE I.registers[i]],
              !.spsr = spsrName]

\* The switch with the IRQ case bound to the Supervisor bank
SwapBanksIrqAsSvc(I, mode) ==
    CASE mode \in {\h10, \h1F} -> Bind(I, "registersUsr", 8, "registersUsr", 13, "nullptr")
      [] mode = \h11 -> Bind(I, "registersFiq", 0, "registersFiq", 5, "spsrFiq")
      [] mode = \h12 -> Bind(I, "registersUsr", 8, "registersSvc", 0, "spsrIrq")
      [] mode = \h13 -> Bind(I, "registersUsr", 8, "registersSvc", 0, "spsrSvc")
      [] mode = \h17 -> Bind(I, "registersUsr", 8, "registersAbt", 0, "spsrAbt")
      [] mode = \h1B -> Bind(I, "registersUsr", 8, "registersUnd", 0, "spsrUnd")
      [] OTHER -> I

\* The switch without the System case
SwapBanksUserOnly(I, mode) ==
    CASE mode = \h10 -> Bind(I, "registersUsr", 8, "registersUsr", 13, "nullptr")
      [] mode = \h11 -> Bind(I, "registersFiq", 0, "registersFiq", 5, "spsrFiq")
      [] mode = \h12 -> Bind(I, "registersUsr", 8, "registersIrq", 0, "spsrIrq")
      [] mode = \h13 -> Bind(I, "registersUsr", 8, "registersSvc", 0, "spsrSvc")
      [] mode = \h17 -> Bind(I, "registersUsr", 8, "registersAbt", 0, "spsrAbt")
      [] mode = \h1B -> Bind(I, "registersUsr", 8, "registersUnd", 0, "spsrUnd")
      [] OTHER -> I

\* switch (value & 0x1F) of setCpsr
SwapBanks(I, mode) ==
    CASE mode \in {\h10, \h1F} -> Bind(I, "registersUsr", 8, "registersUsr", 13, "nullptr")
      [] mode = \h11 -> Bind(I, "registersFiq", 0, "registersFiq", 5, "spsrFiq")
      [] mode = \h12 -> Bind(I, "registersUsr", 8, "registersIrq", 0, "spsrIrq")
      [] mode = \h13 -> Bind(I, "registersUsr", 8, "registersSvc", 0, "spsrSvc")
      [] mode = \h17 -> Bind(I, "registersUsr", 8, "registersAbt", 0, "spsrAbt")
      [] mode = \h1B -> Bind(I, "registersUsr", 8, "registersUnd", 0, "spsrUnd")
      [] OTHER -> I

\* ime && (ie & irf) && !(cpsr & BIT(7))
Pending(I) == I.ime # 0 /\ And32(I.ie, I.irf) # Zero32 /\ ~TestBit(I.cpsr, 7)

\* The delay with the ARM7's half speed forgotten
InterruptDelayOne(C, c) == 1

\* (cpu == 1 && !core->gbaMode) ? 2 : 1
InterruptDelay(C, c) == IF c = 1 /\ ~C.gbaMode THEN 2 ELSE 1

\* The check that ends setCpsr, writeIme and writeIe
TriggerIfPending(C, c) ==
    IF Pending(C.interpreter[c])
    THEN schedule(C, InterruptTask(c), InterruptDelay(C, c))
    ELSE C

setCpsr(C, c, value, save) ==
    LET I == C.interpreter[c]
        mode == Lo(value) % 32
        swapped == IF mode # Lo(I.cpsr) % 32 THEN SwapBanks(I, mode) ELSE I
        saved == IF save /\ swapped.spsr # "nullptr"
                 THEN [swapped EXCEPT !.spsrs[swapped.spsr] = I.cpsr]
                 ELSE swapped
    IN  TriggerIfPending([C EXCEPT !.interpreter[c] = [saved EXCEPT !.cpsr = value]], c)

\* flushPipeline fetching one opcode further back: at R15 - 2 * width and
\* R15 - width
flushPipelineBehind(C, c) ==
    LET I == C.interpreter[c]
    IN  IF TestBit(I.cpsr, 5)
        THEN LET r15 == Add32(And32(Reg(I, 15), Not32(W(0, 1))), U32(2))
             IN  [C EXCEPT !.interpreter[c] =
                     [SetReg(I, 15, r15) EXCEPT !.pipeline =
                         <<MemLoad16(C, c, Sub32(r15, U32(4))),
                           MemLoad16(C, c, Sub32(r15, U32(2)))>>]]
        ELSE LET r15 == Add32(And32(Reg(I, 15), Not32(W(0, 3))), U32(4))
             IN  [C EXCEPT !.interpreter[c] =
                     [SetReg(I, 15, r15) EXCEPT !.pipeline =
                         <<MemLoad32(C, c, Sub32(r15, U32(8))),
                           MemLoad32(C, c, Sub32(r15, U32(4)))>>]]

flushPipeline(C, c) ==
    LET I == C.interpreter[c]
    IN  IF TestBit(I.cpsr, 5)
        THEN LET r15 == Add32(And32(Reg(I, 15), Not32(W(0, 1))), U32(2))
             IN  [C EXCEPT !.interpreter[c] =
                     [SetReg(I, 15, r15) EXCEPT !.pipeline =
                         <<MemLoad16(C, c, Sub32(r15, U32(2))), MemLoad16(C, c, r15)>>]]
        ELSE LET r15 == Add32(And32(Reg(I, 15), Not32(W(0, 3))), U32(4))
             IN  [C EXCEPT !.interpreter[c] =
                     [SetReg(I, 15, r15) EXCEPT !.pipeline =
                         <<MemLoad32(C, c, Sub32(r15, U32(4))), MemLoad32(C, c, r15)>>]]

\* static uint8_t modes[] of exception
modes == <<\h13, \h1B, \h13, \h17, \h17, \h13, \h12, \h11>>

\* bios->execute(vector, cpu, registers): the HLE BIOS takes the exception
\* over; only its cost reaches the interpreter
BiosExecute(C, c, vector) == [C EXCEPT !.ret = 3]

\* exception with the return address adjusted by the T bit of the CPSR it
\* has just written, not of the saved one
exceptionLrFromCpsr(C, c, vector) ==
    LET I == C.interpreter[c]
        value == Or32(Or32(And32(I.cpsr, Not32(W(0, \h3F))), BIT(7)),
                      W(0, modes[(vector \div 4) + 1]))
        C1 == setCpsr(C, c, value, TRUE)
        I1 == C1.interpreter[c]
        I2 == SetReg(I1, 14, Add32(Reg(I1, 15),
                                   IF TestBit(I1.cpsr, 5) THEN U32(2) ELSE Zero32))
        I3 == SetReg(I2, 15, Add32(IF c = 1 THEN Zero32 ELSE C.exceptionAddr,
                                   U32(vector)))
        C3 == flushPipeline([C1 EXCEPT !.interpreter[c] = I3], c)
    IN  [C3 EXCEPT !.ret = 3]

exception(C, c, vector) ==
    IF C.bios /\ (c = 1 \/ C.exceptionAddr # Zero32)
    THEN BiosExecute(C, c, vector)
    ELSE LET I == C.interpreter[c]
             value == Or32(Or32(And32(I.cpsr, Not32(W(0, \h3F))), BIT(7)),
                           W(0, modes[(vector \div 4) + 1]))
             C1 == setCpsr(C, c, value, TRUE)
             I1 == C1.interpreter[c]
             I2 == SetReg(I1, 14, Add32(Reg(I1, 15),
                                        IF TestBit(I1.spsrs[I1.spsr], 5)
                                        THEN U32(2) ELSE Zero32))
             I3 == SetReg(I2, 15, Add32(IF c = 1 THEN Zero32 ELSE C.exceptionAddr,
                                        U32(vector)))
             C3 == flushPipeline([C1 EXCEPT !.interpreter[c] = I3], c)
         IN  [C3 EXCEPT !.ret = 3]

init(C, c) ==
    LET C1 == setCpsr(C, c, W(0, \hD3), FALSE)
        I1 == C1.interpreter[c]
        I2 == [I1 EXCEPT !.regs.registersUsr[15] =
                             IF c = 0 THEN W(\hFFFF, 0) ELSE Zero32]
        C2 == flushPipeline([C1 EXCEPT !.interpreter[c] = I2], c)
    IN  [C2 EXCEPT !.interpreter[c] =
            [C2.interpreter[c] EXCEPT !.ime = 0, !.ie = Zero32, !.irf = Zero32,
                                      !.postFlg = 0]]

-----------------------------------------------------------------------------
(* Interpreter: interrupt registers *)

\* halted &= ~BIT(0)
ClearHaltBit0(h) == h - (h % 2)

\* sendInterrupt with every CPU woken whatever IME is
sendInterruptWakeAlways(C, c, bit) ==
    LET I == [C.interpreter[c] EXCEPT !.irf = Or32(@, BIT(bit))]
        C1 == [C EXCEPT !.interpreter[c] = I]
    IN  IF And32(I.ie, I.irf) # Zero32
        THEN IF I.ime # 0 /\ ~TestBit(I.cpsr, 7)
             THEN schedule(C1, InterruptTask(c), IF c = 1 /\ ~C.gbaMode THEN 2 ELSE 1)
             ELSE [C1 EXCEPT !.interpreter[c].halted = @ - (@ % 2)]
        ELSE C1

sendInterrupt(C, c, bit) ==
    LET I == [C.interpreter[c] EXCEPT !.irf = Or32(@, BIT(bit))]
        C1 == [C EXCEPT !.interpreter[c] = I]
    IN  IF And32(I.ie, I.irf) # Zero32
        THEN IF I.ime # 0 /\ ~TestBit(I.cpsr, 7)
             THEN schedule(C1, InterruptTask(c), InterruptDelay(C, c))
             ELSE IF I.ime # 0 \/ c = 1
                  THEN [C1 EXCEPT !.interpreter[c].halted = ClearHaltBit0(@)]
                  ELSE C1
        ELSE C1

\* interrupt without the check that the conditions still hold
interruptUnchecked(C, c) ==
    LET C1 == exception(C, c, \h18)
    IN  [C1 EXCEPT !.interpreter[c].halted = @ - (@ % 2)]

interrupt(C, c) ==
    IF Pending(C.interpreter[c])
    THEN LET C1 == exception(C, c, \h18)
         IN  [C1 EXCEPT !.interpreter[c].halted = ClearHaltBit0(@)]
    ELSE C

\* writeIme without the check that follows the store
writeImeStoreOnly(C, c, value) == [C EXCEPT !.interpreter[c].ime = value % 2]

writeIme(C, c, value) ==
    TriggerIfPending([C EXCEPT !.interpreter[c].ime = value % 2], c)

\* The writable bits of IE
IeMask(C, c) ==
    IF c = 0 THEN W(\h003F, \h3F7F)
    ELSE IF C.gbaMode THEN W(0, \h3FFF) ELSE W(\h01FF, \h3FFF)

writeIe(C, c, mask, value) ==
    LET m == And32(mask, IeMask(C, c))
        I == C.interpreter[c]
    IN  TriggerIfPending(
            [C EXCEPT !.interpreter[c].ie =
                          Or32(And32(I.ie, Not32(m)), And32(value, m))], c)

\* writeIrf storing the masked value, as a write to IE does
writeIrfStore(C, c, mask, value) ==
    [C EXCEPT !.interpreter[c].irf = Or32(And32(@, Not32(mask)), And32(value, mask))]

writeIrf(C, c, mask, value) ==
    [C EXCEPT !.interpreter[c].irf = And32(@, Not32(And32(value, mask)))]

\* halted |= BIT(bit): the CPU is halted by a write to HALTCNT, a CP15
\* wait-for-interrupt or a stalled geometry FIFO
halt(C, c, bit) ==
    [C EXCEPT !.interpreter[c].halted =
                  IF (@ \div Pow2(bit)) % 2 = 1 THEN @ ELSE @ + Pow2(bit)]

\* A taken branch: *registers[15] = address; flushPipeline()
Branch(C, c, address) ==
    flushPipeline([C EXCEPT !.interpreter[c] = SetReg(@, 15, address)], c)

directBoot(C, c) ==
    LET entryAddr == IF c = 0 THEN MemLoad32(C, 0, W(\h027F, \hFE24))
                              ELSE MemLoad32(C, 0, W(\h027F, \hFE34))
        I == C.interpreter[c]
        I1 == IF c = 0
              THEN [I EXCEPT !.regs.registersUsr[13] = W(\h0300, \h2F7C),
                             !.regs.registersIrq[0]  = W(\h0300, \h3F80),
                             !.regs.registersSvc[0]  = W(\h0300, \h3FC0)]
              ELSE [I EXCEPT !.regs.registersUsr[13] = W(\h0380, \hFD80),
                             !.regs.registersIrq[0]  = W(\h0380, \hFF80),
                             !.regs.registersSvc[0]  = W(\h0380, \hFFC0)]
        C1 == setCpsr([C EXCEPT !.interpreter[c] = I1], c, W(0, \hDF), FALSE)
        I2 == [C1.interpreter[c] EXCEPT !.regs.registersUsr[12] = entryAddr,
                                        !.regs.registersUsr[14] = entryAddr,
                                        !.regs.registersUsr[15] = entryAddr]
    IN  flushPipeline([C1 EXCEPT !.interpreter[c] = I2], c)

\* The register list (13 << 16) | BIT(0) | BIT(1) | BIT(2) | BIT(3) | BIT(12)
\* | BIT(14) of the HLE IRQ's transfers: the base register and the registers
\* moved, in ascending order
HleBase == 13

HleList == <<0, 1, 2, 3, 12, 14>>

\* stmdbW(opcode): the listed registers are stored in ascending order at
\* base - 4 * n upwards, and the base is written back as base - 4 * n
RECURSIVE StoreFrom(_, _, _, _, _)
StoreFrom(C, c, address, rlist, i) ==
    IF i > Len(rlist) THEN C
    ELSE StoreFrom(MemWrite32(C, c, address, Reg(C.interpreter[c], rlist[i])),
                   c, Add32(address, U32(4)), rlist, i + 1)

stmdbW(C, c, rn, rlist) ==
    LET low == Sub32(Reg(C.interpreter[c], rn), U32(4 * Len(rlist)))
        C1 == StoreFrom(C, c, low, rlist, 1)
    IN  [C1 EXCEPT !.interpreter[c] = SetReg(@, rn, low)]

\* ldmiaW(opcode): the listed registers are loaded in ascending order from
\* base upwards, and the base is written back as base + 4 * n
RECURSIVE LoadFrom(_, _, _, _, _)
LoadFrom(C, c, address, rlist, i) ==
    IF i > Len(rlist) THEN C
    ELSE LoadFrom([C EXCEPT !.interpreter[c] =
                       SetReg(@, rlist[i], MemLoad32(C, c, address))],
                  c, Add32(address, U32(4)), rlist, i + 1)

ldmiaW(C, c, rn, rlist) ==
    LET base == Reg(C.interpreter[c], rn)
        C1 == LoadFrom(C, c, base, rlist, 1)
    IN  [C1 EXCEPT !.interpreter[c] = SetReg(@, rn, Add32(base, U32(4 * Len(rlist))))]

\* core->cp15.getDtcmAddr(): the base the guest has mapped the data TCM at
getDtcmAddr == W(\h0280, 0)

\* The word the guest's IRQ handler is read from:
\* cpu ? 0x3FFFFFC : (core->cp15.getDtcmAddr() + 0x3FFC)
HandlerPointer(c) ==
    IF c = 1 THEN W(\h03FF, \hFFFC) ELSE Add32(getDtcmAddr, W(0, \h3FFC))

\* handleHleIrq with the return address adjusted by the T bit of the CPSR it
\* has just written, not of the saved one
handleHleIrqLrFromCpsr(C, c) ==
    LET I == C.interpreter[c]
        value == Or32(Or32(And32(I.cpsr, Not32(W(0, \h3F))), BIT(7)), W(0, \h12))
        C1 == setCpsr(C, c, value, TRUE)
        I1 == C1.interpreter[c]
        I2 == SetReg(I1, 14, Add32(Reg(I1, 15),
                                   IF TestBit(I1.cpsr, 5) THEN U32(2) ELSE Zero32))
        C2 == stmdbW([C1 EXCEPT !.interpreter[c] = I2], c, HleBase, HleList)
        I3 == SetReg(C2.interpreter[c], 14, HleSentinel(c))
        handler == MemLoad32(C2, c, HandlerPointer(c))
        C3 == flushPipeline([C2 EXCEPT !.interpreter[c] = SetReg(I3, 15, handler)], c)
    IN  [C3 EXCEPT !.ret = 3]

handleHleIrq(C, c) ==
    LET I == C.interpreter[c]
        value == Or32(Or32(And32(I.cpsr, Not32(W(0, \h3F))), BIT(7)), W(0, \h12))
        C1 == setCpsr(C, c, value, TRUE)
        I1 == C1.interpreter[c]
        I2 == SetReg(I1, 14, Add32(Reg(I1, 15),
                                   IF TestBit(I1.spsrs[I1.spsr], 5)
                                   THEN U32(2) ELSE Zero32))
        C2 == stmdbW([C1 EXCEPT !.interpreter[c] = I2], c, HleBase, HleList)
        I3 == SetReg(C2.interpreter[c], 14, HleSentinel(c))
        handler == MemLoad32(C2, c, HandlerPointer(c))
        C3 == flushPipeline([C2 EXCEPT !.interpreter[c] = SetReg(I3, 15, handler)], c)
    IN  [C3 EXCEPT !.ret = 3]

\* unkArm(opcode): the opcode is logged, nothing else happens
unkArm(C, c, opcode) == [C EXCEPT !.ret = 1]

\* blx(opcode), BLX label: R14 = R15 - 4, R15 += the signed 24-bit offset
\* times 4 plus the H bit (bit 24) times 2, THUMB state, flush
blx(C, c, opcode) ==
    LET imm == (Hi(opcode) % 256) * Half + Lo(opcode)
        low == (imm * 4 + ((Hi(opcode) \div 256) % 2) * 2) % (1024 * Half)
        op0 == W((low \div Half) + (IF (Hi(opcode) \div 128) % 2 = 1 THEN \hFC00 ELSE 0),
                 low % Half)
        I == C.interpreter[c]
        I1 == SetReg(I, 14, Sub32(Reg(I, 15), U32(4)))
        I2 == SetReg(I1, 15, Add32(Reg(I1, 15), op0))
        I3 == [I2 EXCEPT !.cpsr = Or32(@, BIT(5))]
        C1 == flushPipeline([C EXCEPT !.interpreter[c] = I3], c)
    IN  [C1 EXCEPT !.ret = 3]

\* bx(opcode), BX Rn: R15 = Rn, THUMB state if its bit 0 is set, flush
bx(C, c, opcode) ==
    LET I == C.interpreter[c]
        op0 == Reg(I, opcode % 16)
        I1 == IF Lo(op0) % 2 = 1 THEN [I EXCEPT !.cpsr = Or32(@, BIT(5))] ELSE I
        C1 == flushPipeline([C EXCEPT !.interpreter[c] = SetReg(I1, 15, op0)], c)
    IN  [C1 EXCEPT !.ret = 3]

\* bios->shouldCheck() and bios->checkWaitFlags(cpu): inside IntrWait the BIOS
\* either finds the awaited flag or halts the CPU again
WaitOutcomes == {"none", "found", "halt"}

checkWaitFlags(C, c, wait) == IF wait = "halt" THEN halt(C, c, 0) ELSE C

finishHleIrq(C, c, wait) ==
    LET C0 == IF wait # "none" THEN checkWaitFlags(C, c, wait) ELSE C
        C1 == ldmiaW(C0, c, HleBase, HleList)
        I1 == C1.interpreter[c]
        I2 == SetReg(I1, 15, Sub32(Reg(I1, 14), U32(4)))
        C2 == [C1 EXCEPT !.interpreter[c] = I2]
        C3 == IF I2.spsr # "nullptr" THEN setCpsr(C2, c, I2.spsrs[I2.spsr], FALSE) ELSE C2
        C4 == flushPipeline(C3, c)
    IN  [C4 EXCEPT !.ret = 3]

\* The opcodes the patched DLDI stub's functions are made of
DLDI_START == W(\hF000, 0)

DLDI_INSERT == W(\hF000, 1)

DLDI_READ == W(\hF000, 2)

DLDI_WRITE == W(\hF000, 3)

DLDI_CLEAR == W(\hF000, 4)

DLDI_STOP == W(\hF000, 5)

DldiOpcodes == {DLDI_START, DLDI_INSERT, DLDI_READ, DLDI_WRITE, DLDI_CLEAR, DLDI_STOP}

\* (opcode & 0x0E000000) == 0x0A000000
IsBlxLabel(opcode) == (Hi(opcode) \div 512) % 8 = 5

\* handleReserved(opcode); patched is core->dldi.isPatched(), result the value
\* the DLDI callback returns, wait what the BIOS finds when the HLE IRQ ends
handleReserved(C, c, opcode, patched, result, wait) ==
    IF IsBlxLabel(opcode) THEN blx(C, c, opcode)
    ELSE IF C.bios /\ opcode = HleReturn THEN finishHleIrq(C, c, wait)
    ELSE IF patched
         THEN bx(IF opcode \in DldiOpcodes
                 THEN [C EXCEPT !.interpreter[c] = SetReg(@, 0, result)]
                 ELSE C,
                 c, 14)
    ELSE unkArm(C, c, opcode)

\* writePostFlg with the second bit writable on either CPU
writePostFlgBit1OnBoth(C, c, value) ==
    LET p1 == IF value % 2 = 1 \/ C.interpreter[c].postFlg % 2 = 1
              THEN (C.interpreter[c].postFlg \div 2) * 2 + 1
              ELSE C.interpreter[c].postFlg
    IN  [C EXCEPT !.interpreter[c].postFlg =
                      (p1 \div 4) * 4 + ((value \div 2) % 2) * 2 + (p1 % 2)]

writePostFlg(C, c, value) ==
    LET p1 == IF value % 2 = 1 \/ C.interpreter[c].postFlg % 2 = 1
              THEN (C.interpreter[c].postFlg \div 2) * 2 + 1
              ELSE C.interpreter[c].postFlg
        p2 == IF c = 0
              THEN (p1 \div 4) * 4 + ((value \div 2) % 2) * 2 + (p1 % 2)
              ELSE p1
    IN  [C EXCEPT !.interpreter[c].postFlg = p2]

-----------------------------------------------------------------------------
(* Bounds of the model and the inputs the operations are called with *)

\* SpecIrq: no call is made once globalCycles has reached this value
IrqMaxCycles == 2

\* SpecIrq: no call is made while the queue holds this many entries
IrqMaxTasks == 2

CPUs == {0, 1}

\* Interrupt request bits: V-blank (0), and IPC sync (16), which lies outside
\* the IE bits that are writable in GBA mode
IrqBits == {0, 16}

IrqWords == {Zero32, BIT(0), BIT(16)}

\* CPSR values written by the guest: system mode with IRQs enabled,
\* supervisor mode with IRQs disabled
CpsrValues == {W(0, \h1F), W(0, \hD3)}

\* The latest stamp a call made before cycle IrqMaxCycles gives a task
IrqMaxStamp == IrqMaxCycles + 2

\* A call is made while fewer than IrqMaxTasks tasks are queued behind the
\* periodic one and globalCycles is below IrqMaxCycles
CanCall == Len(tasks) <= IrqMaxTasks /\ Lt32(globalCycles, U32(IrqMaxCycles))

\* The core once both interpreters are constructed and init() has run,
\* nothing queued
Booted(gba, hle, base) ==
    LET C0 == [interpreter   |-> [c \in CPUs |-> Interpreter(c)],
               tasks         |-> <<>>,
               globalCycles  |-> Zero32,
               gbaMode       |-> gba,
               bios          |-> hle,
               exceptionAddr |-> base,
               memory        |-> {},
               ret           |-> 0]
    IN  init(init(C0, 0), 1)

\* Interpreter c after the guest has enabled V-blank interrupts: IME set,
\* IE bit 0 set, system mode with CPSR.I clear
Armed(C, c) == setCpsr(writeIe(writeIme(C, c, 1), c, Max32, BIT(0)), c, W(0, \h1F), FALSE)

\* The tasks the core keeps queued besides the interrupt tasks

\* Cycles between two scanline ticks
ScanlinePeriod == 3

ScanlineTask == [kind |-> "scanline"]

EventTask == [kind |-> "event"]

\* The core's periodic rebase of the cycle counters, a scheduled task
ResetTask == [kind |-> "reset"]

\* The number of cycles from one rebase to the next
ResetPeriod == 4

resetCycles(C, c) ==
    [C EXCEPT !.interpreter[c].cycles = Sub32(@, Min32(C.globalCycles, @))]

\* The caller of resetCycles: every task stamp and both interpreters'
\* counters are rebased by globalCycles, globalCycles becomes 0, and the
\* rebase schedules itself again
CoreResetCycles(C) ==
    LET C1 == [C EXCEPT !.tasks = [i \in 1..Len(C.tasks) |->
                                      [C.tasks[i] EXCEPT !.cycles = Sub32(@, C.globalCycles)]]]
        C2 == resetCycles(resetCycles(C1, 0), 1)
    IN  schedule([C2 EXCEPT !.globalCycles = Zero32], ResetTask, ResetPeriod)

\* (*core.tasks[0].task)(): the call of a queued task
Invoke(C, task, effect) ==
    CASE task.kind = "interrupt" -> interrupt(C, task.cpu)
      [] task.kind = "reset"     -> CoreResetCycles(C)
      [] task.kind = "scanline"  ->
            LET C1 == schedule(C, task, ScanlinePeriod)
            IN  CASE effect.op = "irq"   -> sendInterrupt(C1, effect.cpu, 0)
                  [] effect.op = "event" -> schedule(C1, EventTask, 0)
                  [] OTHER               -> C1
      [] OTHER -> C

\* The core with its periodic task queued: the scanline tick
Queued(C) == schedule(C, ScanlineTask, ScanlinePeriod)

-----------------------------------------------------------------------------
(* SpecIrq: the interrupt registers driven by their callers, one call per  *)
(* step, with the drive loop firing the queue's first task in between.     *)
(* One interpreter (track.cpu) takes every call; the other one, armed,     *)
(* takes V-blank requests only, so that the queue holds tasks of both.     *)

NoCall == [op |-> "none"]

IrqInit ==
    /\ gbaMode \in BOOLEAN
    /\ bios = FALSE
    /\ exceptionAddr = W(\hFFFF, 0)
    /\ \E c \in CPUs :
          LET C == Armed(Queued(Booted(gbaMode, bios, exceptionAddr)), 1 - c)
          IN  /\ interpreter = C.interpreter
              /\ tasks = C.tasks
              /\ globalCycles = C.globalCycles
              /\ track = [cpu |-> c]
    /\ running = TRUE
    /\ memory = {}
    /\ pc = "calls"
    /\ last = NoCall

IrqFrame == UNCHANGED <<running, gbaMode, bios, exceptionAddr, pc, memory, track, last>>

IrqSendInterrupt(c, bit) ==
    /\ CanCall
    /\ Becomes(sendInterrupt(Core, c, bit))
    /\ IrqFrame

IrqWriteIme(c, value) ==
    /\ CanCall
    /\ Becomes(writeIme(Core, c, value))
    /\ IrqFrame

IrqWriteIe(c, mask, value) ==
    /\ CanCall
    /\ Becomes(writeIe(Core, c, mask, value))
    /\ IrqFrame

IrqWriteIrf(c, mask, value) ==
    /\ CanCall
    /\ Becomes(writeIrf(Core, c, mask, value))
    /\ IrqFrame

IrqSetCpsr(c, value) ==
    /\ CanCall
    /\ Becomes(setCpsr(Core, c, value, FALSE))
    /\ IrqFrame

IrqException(c, vector) ==
    /\ CanCall
    /\ Becomes(exception(Core, c, vector))
    /\ IrqFrame

\* The drive loop's firing of the queue's first task (lines 103-109): the
\* jump to its stamp, the call, and the erasure of the first entry. The
\* periodic task schedules itself again when it is called, so an entry is
\* left for the loop's next test of tasks[0]
FireFirst(C) ==
    LET C0 == [C EXCEPT !.globalCycles = C.tasks[1].cycles]
        C1 == Invoke(C0, C.tasks[1].task, [op |-> "none"])
    IN  [C1 EXCEPT !.tasks = Erase(C1.tasks)]

\* The first task is fired while its stamp is one a call can have given
CanFire == tasks # <<>> /\ Le32(tasks[1].cycles, U32(IrqMaxStamp))

IrqFire ==
    /\ CanFire
    /\ Becomes(FireFirst(Core))
    /\ IrqFrame

IrqNext ==
    \/ \E bit \in IrqBits : IrqSendInterrupt(track.cpu, bit)
    \/ IrqSendInterrupt(1 - track.cpu, 0)
    \/ \E value \in 0..1 : IrqWriteIme(track.cpu, value)
    \/ \E value \in IrqWords : IrqWriteIe(track.cpu, Max32, value)
    \/ \E value \in IrqWords : IrqWriteIrf(track.cpu, Max32, value)
    \/ \E value \in CpsrValues : IrqSetCpsr(track.cpu, value)
    \/ IrqException(track.cpu, \h18)
    \/ IrqFire

SpecIrq == IrqInit /\ [][IrqNext]_vars

\* C1: whenever an interpreter has IME set, an enabled request pending and
\* CPSR.I clear, the queue holds an interrupt task of that interpreter.
C1_PendingIsQueued ==
    \A c \in CPUs :
        Pending(interpreter[c]) =>
            \E i \in 1..Len(tasks) : tasks[i].task = InterruptTask(c)

\* An interpreter has an interrupt pending after an earlier task has fired,
\* and the other interpreter's task is ahead of its own in the queue
C1_Witness ==
    \E c \in CPUs :
        /\ Pending(interpreter[c])
        /\ Lt32(Zero32, globalCycles)
        /\ Len(tasks) >= 2
        /\ tasks[1].task = InterruptTask(1 - c)
        /\ tasks[2].task = InterruptTask(c)

-----------------------------------------------------------------------------
(* SpecCall: one call of sendInterrupt, writeIme, writeIe, writeIrf or     *)
(* setCpsr on interpreter track.cpu, from each state a guest can set up,   *)
(* with the drive loop firing queued interrupt tasks before and after it.  *)

HaltWords == 0..3

\* The masks of a write to IF: the whole word, and either halfword
IrfMasks == {Max32, W(0, \hFFFF), W(\hFFFF, 0)}

\* The values written to IF: no bit, either request bit, both
IrfValues == IrqWords \cup {W(1, 1)}

\* The guest's set-up of interpreter c, made of the calls it makes: the
\* CPSR, IE, the requests raised, IME, and the halt bits
Prepared(C, c, cpsrV, ieV, irfBits, imeV, haltV) ==
    LET C1 == setCpsr(C, c, cpsrV, FALSE)
        C2 == writeIe(C1, c, Max32, ieV)
        C3 == IF 0 \in irfBits THEN sendInterrupt(C2, c, 0) ELSE C2
        C4 == IF 16 \in irfBits THEN sendInterrupt(C3, c, 16) ELSE C3
        C5 == writeIme(C4, c, imeV)
        C6 == IF haltV % 2 = 1 THEN halt(C5, c, 0) ELSE C5
    IN  IF haltV >= 2 THEN halt(C6, c, 1) ELSE C6

CallInit ==
    /\ gbaMode \in BOOLEAN
    /\ bios = FALSE
    /\ exceptionAddr = W(\hFFFF, 0)
    /\ \E c \in CPUs, cpsrV \in CpsrValues \cup {W(0, \h3F)}, ieV \in IrqWords,
          irfBits \in SUBSET IrqBits, imeV \in 0..1, haltV \in HaltWords :
          LET C == Prepared(Queued(Booted(gbaMode, bios, exceptionAddr)), c, cpsrV, ieV,
                            irfBits, imeV, haltV)
          IN  /\ interpreter = C.interpreter
              /\ tasks = C.tasks
              /\ globalCycles = C.globalCycles
              /\ track = [cpu |-> c]
    /\ running = TRUE
    /\ memory = {}
    /\ pc = "ready"
    /\ last = NoCall

\* What a call leaves in the history: the operation, its argument, its
\* return value, and the interpreter, queue and cycle stamp it started from
Record(op, c, arg, ret) ==
    last' = [op |-> op, cpu |-> c, arg |-> arg, ret |-> ret,
             before |-> interpreter[c], queue |-> tasks, at |-> globalCycles]

CallFrame == UNCHANGED <<running, gbaMode, bios, exceptionAddr, memory, track>>

CallSendInterrupt(c, bit) ==
    /\ pc = "ready"
    /\ Becomes(sendInterrupt(Core, c, bit))
    /\ Record("sendInterrupt", c, bit, 0)
    /\ pc' = "called"
    /\ CallFrame

CallWriteIme(c, value) ==
    /\ pc = "ready"
    /\ Becomes(writeIme(Core, c, value))
    /\ Record("writeIme", c, value, 0)
    /\ pc' = "called"
    /\ CallFrame

CallWriteIe(c, mask, value) ==
    /\ pc = "ready"
    /\ Becomes(writeIe(Core, c, mask, value))
    /\ Record("writeIe", c, <<mask, value>>, 0)
    /\ pc' = "called"
    /\ CallFrame

CallWriteIrf(c, mask, value) ==
    /\ pc = "ready"
    /\ Becomes(writeIrf(Core, c, mask, value))
    /\ Record("writeIrf", c, <<mask, value>>, 0)
    /\ pc' = "called"
    /\ CallFrame

CallSetCpsr(c, value) ==
    /\ pc = "ready"
    /\ Becomes(setCpsr(Core, c, value, FALSE))
    /\ Record("setCpsr", c, value, 0)
    /\ pc' = "called"
    /\ CallFrame

CallFire ==
    /\ CanFire
    /\ Becomes(FireFirst(Core))
    /\ IF tasks[1].task.kind = "interrupt"
       THEN Record("interrupt", tasks[1].task.cpu, 0, 0)
       ELSE Record(tasks[1].task.kind, track.cpu, 0, 0)
    /\ UNCHANGED pc
    /\ CallFrame

CallNext ==
    \/ \E bit \in IrqBits : CallSendInterrupt(track.cpu, bit)
    \/ \E value \in 0..1 : CallWriteIme(track.cpu, value)
    \/ \E value \in IrqWords : CallWriteIe(track.cpu, Max32, value)
    \/ \E mask \in IrfMasks, value \in IrfValues : CallWriteIrf(track.cpu, mask, value)
    \/ \E value \in CpsrValues : CallSetCpsr(track.cpu, value)
    \/ CallFire

SpecCall == CallInit /\ [][CallNext]_vars

\* halted with bit 0 cleared, bit 1 kept
Bit0Cleared(h) == IF h \in {1, 3} THEN h - 1 ELSE h

\* The queue's entries as the code holds them: a stamp and a callable
Plain(q) == [i \in 1..Len(q) |-> [cycles |-> q[i].cycles, task |-> q[i].task]]

\* queue with entry e inserted at exactly one place
OneMore(after, queue, e) ==
    /\ Len(after) = Len(queue) + 1
    /\ \E i \in 1..Len(after) :
          /\ after[i] = e
          /\ \A j \in 1..Len(queue) : queue[j] = after[IF j < i THEN j ELSE j + 1]

\* The interrupt condition of interpreter record I, written out
Cond(I) ==
    /\ I.ime = 1
    /\ \E k \in 0..31 : TestBit(I.ie, k) /\ TestBit(I.irf, k)
    /\ (Lo(I.cpsr) \div 128) % 2 = 0

\* Some request bit is both enabled and raised
Requested(I) == \E k \in 0..31 : TestBit(I.ie, k) /\ TestBit(I.irf, k)

\* C7: sendInterrupt(bit) sets the request bit; if the interrupt condition
\* then holds it enqueues exactly one interrupt task, stamped
\* globalCycles + 2 on the ARM7 outside GBA mode and globalCycles + 1
\* otherwise, and leaves halted alone; if not, it enqueues nothing.
C7_SendInterruptSchedules ==
    last.op = "sendInterrupt" =>
        LET c == last.cpu
            I == interpreter[c]
            stamp == Add32(last.at, IF c = 1 /\ ~gbaMode THEN W(0, 2) ELSE W(0, 1))
        IN  /\ TestBit(I.irf, last.arg)
            /\ \A k \in 0..31 : k # last.arg => (TestBit(I.irf, k) <=> TestBit(last.before.irf, k))
            /\ IF Cond(I)
               THEN /\ OneMore(Plain(tasks), Plain(last.queue),
                               [cycles |-> stamp, task |-> [kind |-> "interrupt", cpu |-> c]])
                    /\ I.halted = last.before.halted
               ELSE Plain(tasks) = Plain(last.queue)

\* The ARM7 in NDS mode has been sent a request that raises an interrupt
\* after the scanline tick has fired and taken globalCycles past 0: its task
\* is stamped two cycles on, ahead of the next tick
C7_Witness ==
    /\ last.op = "sendInterrupt"
    /\ last.cpu = 1
    /\ ~gbaMode
    /\ Cond(interpreter[1])
    /\ Lt32(Zero32, last.at)
    /\ Len(last.queue) = 1
    /\ Len(tasks) = 2
    /\ tasks[1].task = InterruptTask(1)
    /\ tasks[1].cycles = Add32(last.at, W(0, 2))
    /\ tasks[2].task = ScanlineTask

\* C8: sendInterrupt on a halted CPU whose interrupt condition does not
\* hold: with an enabled request raised, the ARM7 has halted bit 0 cleared
\* whatever IME and CPSR.I are, the ARM9 only if IME is set, and nothing is
\* scheduled; with no enabled request raised, halted is unchanged and
\* nothing is scheduled.
C8_SendInterruptWakes ==
    (last.op = "sendInterrupt" /\ last.before.halted # 0 /\ ~Cond(interpreter[last.cpu])) =>
        LET c == last.cpu
            I == interpreter[c]
        IN  /\ tasks = last.queue
            /\ IF Requested(I)
               THEN IF c = 1 \/ I.ime = 1
                    THEN I.halted = Bit0Cleared(last.before.halted)
                    ELSE I.halted = last.before.halted
               ELSE I.halted = last.before.halted

\* The halted ARM9, IME clear, has been sent an enabled request and is
\* still halted
C8_Witness ==
    /\ last.op = "sendInterrupt"
    /\ last.cpu = 0
    /\ last.before.halted = 1
    /\ interpreter[0].ime = 0
    /\ Requested(interpreter[0])
    /\ interpreter[0].halted = 1

\* C9: a firing interrupt task enters the IRQ exception (mode 0x12, CPSR.I
\* set, SPSR_irq = the CPSR before) and clears halted bit 0 if the interrupt
\* condition holds at that moment, and otherwise leaves the interpreter as
\* it was.
C9_InterruptFires ==
    last.op = "interrupt" =>
        LET I == interpreter[last.cpu]
            b == last.before
        IN  IF Cond(b)
            THEN /\ Lo(I.cpsr) % 32 = \h12
                 /\ (Lo(I.cpsr) \div 128) % 2 = 1
                 /\ I.spsrs.spsrIrq = b.cpsr
                 /\ I.halted = Bit0Cleared(b.halted)
            ELSE /\ I.cpsr = b.cpsr
                 /\ I.regs = b.regs
                 /\ I.registers = b.registers
                 /\ I.spsrs = b.spsrs
                 /\ I.spsr = b.spsr
                 /\ I.pipeline = b.pipeline
                 /\ I.halted = b.halted

\* An interrupt task has fired on a CPU halted with both halt bits set and
\* has taken it into IRQ mode, halt bit 1 still set
C9_Witness ==
    /\ last.op = "interrupt"
    /\ Cond(last.before)
    /\ last.before.halted = 3
    /\ interpreter[last.cpu].halted = 2
    /\ Lo(interpreter[last.cpu].cpsr) % 32 = \h12

\* C15: writeIrf(mask, value) leaves irf = irf_before & ~(value & mask): no
\* bit is set that was clear, a second identical call changes nothing, the
\* queue is as it was, and no other field of the interpreter changes.
C15_WriteIrfAcknowledges ==
    LET c == track.cpu
        I == interpreter[c]
    IN  last.op = "writeIrf" =>
            /\ I.irf = And32(last.before.irf, Not32(And32(last.arg[2], last.arg[1])))
            /\ And32(I.irf, Not32(last.before.irf)) = Zero32
            /\ writeIrf(Core, c, last.arg[1], last.arg[2]).interpreter[c] = I
            /\ tasks = last.queue
            /\ globalCycles = last.at
            /\ [I EXCEPT !.irf = last.before.irf] = last.before

\* Both requests were raised with the interrupt enabled; a halfword write of
\* both bits has acknowledged the V-blank request alone and queued nothing
C15_Witness ==
    LET I == interpreter[track.cpu]
    IN  /\ last.op = "writeIrf"
        /\ last.before.irf = W(1, 1)
        /\ last.arg = <<W(0, \hFFFF), W(1, 1)>>
        /\ I.irf = BIT(16)
        /\ I.ime = 1
        /\ tasks = last.queue

-----------------------------------------------------------------------------
(* SpecExc: exception(vector) entered, without HLE BIOS, from every CPU    *)
(* mode in ARM and THUMB state.                                            *)

Modes == {\h10, \h11, \h12, \h13, \h17, \h1B, \h1F}

Vectors == {\h00, \h04, \h08, \h0C, \h10, \h14, \h18, \h1C}

\* CPSR bits above the mode: T (5), F (6), I (7) in the low half, N (31) in
\* the high half
StatusBits == {W(0, 0), W(0, \h20), W(0, \h80), W(\h8000, \hC0), W(\h8000, \h60)}

\* Addresses the guest was running at; the last one makes R15 + 2 wrap
CodeAddresses == {W(\h0200, \h0800), W(\hFFFF, \hFFFC)}

ExcInit ==
    /\ gbaMode = FALSE
    /\ bios = FALSE
    /\ exceptionAddr \in {W(\hFFFF, 0), Zero32}
    /\ \E c \in CPUs, mode \in Modes, bits \in StatusBits, address \in CodeAddresses :
          LET C1 == setCpsr(Booted(gbaMode, bios, exceptionAddr), c,
                            Or32(bits, W(0, mode)), FALSE)
              C == Branch(C1, c, address)
          IN  /\ interpreter = C.interpreter
              /\ tasks = C.tasks
              /\ globalCycles = C.globalCycles
              /\ track = [cpu |-> c]
    /\ running = TRUE
    /\ memory = {}
    /\ pc = "ready"
    /\ last = NoCall

CallException(c, vector) ==
    /\ pc = "ready"
    /\ LET C == exception(Core, c, vector)
       IN  /\ Becomes(C)
           /\ Record("exception", c, vector, C.ret)
    /\ pc' = "called"
    /\ CallFrame

ExcNext == \E vector \in Vectors : CallException(track.cpu, vector)

SpecExc == ExcInit /\ [][ExcNext]_vars

\* The mode each vector enters, and that mode's R14 cell and SPSR
VectorMode ==
    [v \in Vectors |->
        CASE v \in {\h00, \h08, \h14} -> \h13
          [] v = \h04 -> \h1B
          [] v \in {\h0C, \h10} -> \h17
          [] v = \h18 -> \h12
          [] v = \h1C -> \h11]

LrOf(I, mode) ==
    CASE mode = \h13 -> I.regs.registersSvc[1]
      [] mode = \h1B -> I.regs.registersUnd[1]
      [] mode = \h17 -> I.regs.registersAbt[1]
      [] mode = \h12 -> I.regs.registersIrq[1]
      [] mode = \h11 -> I.regs.registersFiq[6]

SpsrOf(I, mode) ==
    CASE mode = \h13 -> I.spsrs.spsrSvc
      [] mode = \h1B -> I.spsrs.spsrUnd
      [] mode = \h17 -> I.spsrs.spsrAbt
      [] mode = \h12 -> I.spsrs.spsrIrq
      [] mode = \h11 -> I.spsrs.spsrFiq

\* x + n modulo 2^32, on the word as one number of two 16-bit digits
Plus(x, n) ==
    LET lo == Lo(x) + n
    IN  IF lo < Half THEN W(Hi(x), lo)
        ELSE W(IF Hi(x) = Half - 1 THEN 0 ELSE Hi(x) + 1, lo - Half)

\* C10: exception(vector) without HLE BIOS enters the mode the vector
\* selects with CPSR.T cleared, CPSR.I set and every other CPSR bit kept;
\* the new mode's SPSR holds the old CPSR; the new mode's R14 holds the old
\* R15, plus 2 if the source was THUMB; R15 is the exception base plus the
\* vector, flushed (so 4 further on, both pipeline slots refilled from
\* there); the cost returned is 3.
C10_ExceptionEntry ==
    last.op = "exception" =>
        LET c == last.cpu
            I == interpreter[c]
            b == last.before
            mode == VectorMode[last.arg]
            thumb == (Lo(b.cpsr) \div 32) % 2 = 1
            target == Plus(IF c = 0 THEN exceptionAddr ELSE Zero32, last.arg)
        IN  /\ Lo(I.cpsr) % 32 = mode
            /\ (Lo(I.cpsr) \div 32) % 2 = 0
            /\ (Lo(I.cpsr) \div 128) % 2 = 1
            /\ (Lo(I.cpsr) \div 64) % 2 = (Lo(b.cpsr) \div 64) % 2
            /\ Lo(I.cpsr) \div 256 = Lo(b.cpsr) \div 256
            /\ Hi(I.cpsr) = Hi(b.cpsr)
            /\ SpsrOf(I, mode) = b.cpsr
            /\ LrOf(I, mode) = Plus(b.regs.registersUsr[15], IF thumb THEN 2 ELSE 0)
            /\ Reg(I, 14) = LrOf(I, mode)
            /\ I.regs.registersUsr[15] = Plus(target, 4)
            /\ I.pipeline = <<MemLoad32(Core, c, target), MemLoad32(Core, c, Plus(target, 4))>>
            /\ last.ret = 3

\* The ARM9, in THUMB state with R15 at the top of the address space, has
\* taken an interrupt: R14_irq has wrapped to 0
C10_Witness ==
    /\ last.op = "exception"
    /\ last.cpu = 0
    /\ last.arg = \h18
    /\ (Lo(last.before.cpsr) \div 32) % 2 = 1
    /\ last.before.regs.registersUsr[15] = W(\hFFFF, \hFFFE)
    /\ interpreter[0].regs.registersIrq[1] = Zero32
    /\ interpreter[0].regs.registersUsr[15] = Plus(exceptionAddr, \h1C)

-----------------------------------------------------------------------------
(* SpecDrive: the frame drive loops runNdsFrame and runGbaFrame, one step  *)
(* per loop test, CPU step, assignment to globalCycles and task call. The  *)
(* instruction handlers and the device tasks are outside this file: an     *)
(* opcode is a cost and one of the effects a handler can have on the       *)
(* interpreters, a device task is a scanline tick that reschedules itself  *)
(* and may raise a request or schedule a one-shot event.                   *)

\* Cycle stamp past which no CPU step is started
DriveMaxCycles == 5

\* The same where another thread may stop the loop
StopMaxCycles == 3

\* Largest cost of one opcode
MaxCost == 2

\* What an instruction handler does besides costing cycles: nothing, a halt
\* of its own CPU, or a register write that raises a request on the other CPU
OpEffects == {"none", "halt", "ipc"}

\* What a scanline tick does besides rescheduling itself: nothing, a request
\* raised on one CPU, or a one-shot event scheduled for the current cycle
TickEffects ==
    {[op |-> "none"], [op |-> "event"]} \cup {[op |-> "irq", cpu |-> c] : c \in CPUs}

\* (this->*armInstrs[...])(opcode): the handler's effect on the core
Execute(C, c, effect) ==
    CASE effect = "halt" -> halt(C, c, 0)
      [] effect = "ipc"  -> sendInterrupt(C, 1 - c, 0)
      [] OTHER           -> C

\* condition[((opcode >> 24) & 0xF0) | (cpsr >> 28)]: 0 when the opcode's
\* condition fails under the flags N, Z, C, V, 1 when it holds, 2 for the
\* reserved condition 0xF
Condition(opcode, cpsr) ==
    LET cond == Hi(opcode) \div \h1000
        flags == Hi(cpsr) \div \h1000
        n == flags \div 8 = 1
        z == (flags \div 4) % 2 = 1
        cf == (flags \div 2) % 2 = 1
        v == flags % 2 = 1
        holds == CASE cond = 0  -> z
                   [] cond = 1  -> ~z
                   [] cond = 2  -> cf
                   [] cond = 3  -> ~cf
                   [] cond = 4  -> n
                   [] cond = 5  -> ~n
                   [] cond = 6  -> v
                   [] cond = 7  -> ~v
                   [] cond = 8  -> cf /\ ~z
                   [] cond = 9  -> ~cf \/ z
                   [] cond = 10 -> n = v
                   [] cond = 11 -> n # v
                   [] cond = 12 -> ~z /\ n = v
                   [] cond = 13 -> z \/ n # v
                   [] OTHER     -> TRUE
    IN  IF cond = 15 THEN 2 ELSE IF holds THEN 1 ELSE 0

\* What the collaborators answer while an opcode runs: core->dldi.isPatched(),
\* the value a DLDI callback returns, and what the BIOS finds when an HLE
\* IRQ ends
Quiet == [patched |-> FALSE, result |-> Zero32, wait |-> "none"]

\* The first half of runOpcode: the pipeline shifts, R15 advances by the
\* opcode width and pipeline[1] is read from the new R15
Advance(C, c) ==
    LET I == C.interpreter[c]
        thumb == TestBit(I.cpsr, 5)
        r15 == Add32(Reg(I, 15), IF thumb THEN W(0, 2) ELSE W(0, 4))
    IN  [C EXCEPT !.interpreter[c] =
            [SetReg(I, 15, r15) EXCEPT
                !.pipeline = <<I.pipeline[2],
                               IF thumb THEN MemLoad16(C, c, r15)
                                        ELSE MemLoad32(C, c, r15)>>]]

\* Advance with pipeline[1] read from R15 before it is advanced
AdvanceFetchFirst(C, c) ==
    LET I == C.interpreter[c]
        thumb == TestBit(I.cpsr, 5)
        r15 == Add32(Reg(I, 15), IF thumb THEN W(0, 2) ELSE W(0, 4))
    IN  [C EXCEPT !.interpreter[c] =
            [SetReg(I, 15, r15) EXCEPT
                !.pipeline = <<I.pipeline[2],
                               IF thumb THEN MemLoad16(C, c, Reg(I, 15))
                                        ELSE MemLoad32(C, c, Reg(I, 15))>>]]

\* The second half of runOpcode on the advanced core C0: a THUMB opcode goes
\* to its handler; an ARM opcode is skipped at cost 1 when its condition
\* fails, goes to handleReserved under the reserved condition, and to its
\* handler otherwise. cost and effect are the handler's, env the
\* collaborators' answers
Dispatch(C0, c, opcode, cpsr, cost, effect, env) ==
    IF TestBit(cpsr, 5)
    THEN [Execute(C0, c, effect) EXCEPT !.ret = cost]
    ELSE CASE Condition(opcode, cpsr) = 0 -> [C0 EXCEPT !.ret = 1]
           [] Condition(opcode, cpsr) = 2 ->
                 handleReserved(C0, c, opcode, env.patched, env.result, env.wait)
           [] OTHER -> [Execute(C0, c, effect) EXCEPT !.ret = cost]

\* runOpcode refilling the pipeline from R15 before advancing it
runOpcodeFetchFirst(C, c, cost, effect, env) ==
    Dispatch(AdvanceFetchFirst(C, c), c, C.interpreter[c].pipeline[1],
             C.interpreter[c].cpsr, cost, effect, env)

runOpcode(C, c, cost, effect, env) ==
    Dispatch(Advance(C, c), c, C.interpreter[c].pipeline[1],
             C.interpreter[c].cpsr, cost, effect, env)

\* the ARM7's cost taken as it is
Shl0(cost) == cost

\* arm7.runOpcode() << 1
Shl1(cost) == 2 * cost

\* the batch loop's test with a strict comparison
DueStrict(stamp, g) == Lt32(stamp, g)

\* tasks[0].cycles <= globalCycles
Due(stamp, g) == Le32(stamp, g)

\* the later of two stamps
Latest(a, b) == IF Lt32(a, b) THEN b ELSE a

\* std::min<uint32_t>(a, b)
Soonest(a, b) == Min32(a, b)

\* halted ? -1 : cycles
Horizon(I) == IF I.halted # 0 THEN Max32 ELSE I.cycles

\* The guest's program, as far as it differs from the image: the third opcode
\* of each CPU is a BEQ, which the cleared Z flag has runOpcode skip
DriveProgram ==
    {[addr |-> W(\hFFFF, 8), value |-> W(\h0A00, 0)],
     [addr |-> W(0, 8), value |-> W(\h0A00, 0)]}

\* The frame function is called for the first time
Entered(cap) ==
    /\ running = TRUE
    /\ memory = DriveProgram
    /\ pc = "top"
    /\ last = NoCall
    /\ track = [prev |-> Zero32, low |-> Zero32, woken |-> {}, stopAt |-> "none",
                cap |-> cap, base |-> 0, batch |-> 0,
                stores |-> 0, pending |-> 0, merged |-> 0, returns |-> 0,
                win |-> ~gbaMode, g0 |-> Zero32, n9 |-> 0, n7 |-> 0]

\* Both CPUs run with V-blank interrupts enabled; the scanline tick and the
\* cycle rebase are queued
Driven(cap) ==
    /\ gbaMode \in BOOLEAN
    /\ bios = FALSE
    /\ exceptionAddr = W(\hFFFF, 0)
    /\ LET C == schedule(schedule(Armed(Armed(Booted(gbaMode, bios, exceptionAddr), 0), 1),
                                  ScanlineTask, ScanlinePeriod),
                         ResetTask, ResetPeriod)
       IN  /\ interpreter = C.interpreter
           /\ tasks = C.tasks
           /\ globalCycles = C.globalCycles
    /\ Entered(cap)

DriveInit == Driven(DriveMaxCycles)

StopInit == Driven(StopMaxCycles)

\* The ARM9 is in its interrupt handler (IRQ mode, CPSR.I set, IME and IE bit
\* 0 set), running or halted there; the ARM7 runs with V-blank interrupts
\* enabled; the scanline tick is queued and no rebase falls within the run
OrderInit ==
    /\ gbaMode \in BOOLEAN
    /\ bios = FALSE
    /\ exceptionAddr = W(\hFFFF, 0)
    /\ \E haltV \in {0, 1} :
          LET C == schedule(Prepared(Armed(Booted(gbaMode, bios, exceptionAddr), 1),
                                     0, W(0, \h92), BIT(0), {}, 1, haltV),
                            ScanlineTask, ScanlinePeriod)
          IN  /\ interpreter = C.interpreter
              /\ tasks = C.tasks
              /\ globalCycles = C.globalCycles
    /\ Entered(DriveMaxCycles)

DriveFrame == UNCHANGED <<gbaMode, bios, exceptionAddr, memory>>

\* A word as a number, for the small values of the drive specifications
Num(x) == Hi(x) * Half + Lo(x)

\* The top-of-loop test made with a plain store and no test of the old value
DriveTopStore ==
    /\ pc = "top"
    /\ running' = TRUE
    /\ pc' = IF gbaMode THEN "bump" ELSE "inner"
    /\ UNCHANGED <<interpreter, tasks, globalCycles, last, track>>
    /\ DriveFrame

\* The test made with a load: running is read and left as it is
DriveTopLoad ==
    /\ pc = "top"
    /\ pc' = IF running THEN (IF gbaMode THEN "bump" ELSE "inner") ELSE "done"
    /\ track' = [track EXCEPT !.returns = IF running THEN @ ELSE @ + 1]
    /\ UNCHANGED <<interpreter, tasks, globalCycles, running, last>>
    /\ DriveFrame

\* while (core.running.exchange(true))
DriveTop ==
    /\ pc = "top"
    /\ running' = TRUE
    /\ pc' = IF running THEN (IF gbaMode THEN "bump" ELSE "inner") ELSE "done"
    /\ track' = [track EXCEPT !.pending = 0,
                              !.batch = IF running THEN 0 ELSE @,
                              !.returns = IF running THEN @ ELSE @ + 1]
    /\ UNCHANGED <<interpreter, tasks, globalCycles, last>>
    /\ DriveFrame

\* The window of cost-1 opcodes after CPU c ran an opcode or was skipped
Counted(t, c, ran, clean) ==
    IF t.win /\ ran /\ clean
    THEN IF c = 0 THEN [t EXCEPT !.n9 = @ + 1] ELSE [t EXCEPT !.n7 = @ + 1]
    ELSE IF t.win /\ ~ran /\ interpreter[c].halted = 0
         THEN t
         ELSE [t EXCEPT !.win = FALSE, !.g0 = Zero32, !.n9 = 0, !.n7 = 0]

\* One CPU's step of the NDS inner loop:
\* if (!cpu.halted && globalCycles >= cpu.cycles)
\*     cpu.cycles = globalCycles + (cpu.runOpcode() << shift)
\* The ARM9's opcodes count as they cost (shift 0), the ARM7's twice (shift 1)
NdsStep(c, cost, effect, shift, next) ==
    \E C1 \in {runOpcode(Core, c, cost, effect, Quiet)} :
       LET ran == interpreter[c].halted = 0 /\ Le32(interpreter[c].cycles, globalCycles)
           scaled == IF shift = 1 THEN Shl1(C1.ret) ELSE C1.ret
           plain == [C1 EXCEPT !.ret = 0] = [Advance(Core, c) EXCEPT !.ret = 0]
           up == {d \in CPUs : interpreter[d].halted # 0 /\ C1.interpreter[d].halted = 0}
       IN  /\ IF ran
              THEN /\ interpreter' = [C1.interpreter EXCEPT
                                         ![c].cycles = Add32(globalCycles, U32(scaled))]
                   /\ tasks' = C1.tasks
                   /\ last' = [op |-> "opcode", cpu |-> c, ret |-> C1.ret,
                               at |-> globalCycles]
                   /\ track' = [Counted(track, c, ran, C1.ret = 1 /\ plain)
                                   EXCEPT !.woken = (@ \ {c}) \cup up]
              ELSE /\ UNCHANGED <<interpreter, tasks, last>>
                   /\ track' = Counted(track, c, ran, FALSE)
           /\ pc' = next
           /\ UNCHANGED <<globalCycles, running>>
           /\ DriveFrame

\* while (tasks[0].cycles > globalCycles) { run the ARM9 ...
NdsArm9(cost, effect) ==
    /\ pc = "inner"
    /\ ~gbaMode
    /\ Lt32(globalCycles, tasks[1].cycles)
    /\ Lt32(globalCycles, U32(track.cap - track.base))
    /\ NdsStep(0, cost, effect, 0, "arm7")

\* ... run the ARM7 at half the speed of the ARM9 ...
NdsArm7(cost, effect) ==
    /\ pc = "arm7"
    /\ NdsStep(1, cost, effect, 1, "count")

\* ... globalCycles = std::min<uint32_t>(halted ? -1 : cycles, ...) }
NdsCount ==
    /\ pc = "count"
    /\ globalCycles' = Soonest(Horizon(interpreter[0]), Horizon(interpreter[1]))
    /\ pc' = "inner"
    /\ last' = NoCall
    /\ track' =
          LET t == track
              settled == /\ interpreter[0].halted = 0
                         /\ interpreter[1].halted = 0
                         /\ Le32(interpreter[0].cycles, globalCycles')
                         /\ Le32(interpreter[1].cycles, Add32(globalCycles', W(0, 1)))
              t1 == [t EXCEPT !.low = Min32(@, globalCycles')]
          IN  IF ~t.win /\ settled
              THEN [t1 EXCEPT !.win = TRUE, !.g0 = globalCycles', !.n9 = 0, !.n7 = 0]
              ELSE t1
    /\ UNCHANGED <<interpreter, tasks, running>>
    /\ DriveFrame

\* the bump made without its test
GbaBumpAlways ==
    /\ pc = "bump"
    /\ globalCycles' = interpreter[1].cycles
    /\ pc' = "inner"
    /\ UNCHANGED <<interpreter, tasks, running, last, track>>
    /\ DriveFrame

\* if (arm7.cycles > globalCycles) globalCycles = arm7.cycles
GbaBump ==
    /\ pc = "bump"
    /\ globalCycles' = IF Lt32(globalCycles, interpreter[1].cycles)
                       THEN interpreter[1].cycles ELSE globalCycles
    /\ pc' = "inner"
    /\ UNCHANGED <<interpreter, tasks, running, last, track>>
    /\ DriveFrame

\* while (!arm7.halted && tasks[0].cycles > arm7.cycles)
\*     arm7.cycles = (globalCycles += arm7.runOpcode())
GbaRun(cost, effect) ==
    /\ pc = "inner"
    /\ gbaMode
    /\ interpreter[1].halted = 0
    /\ Lt32(interpreter[1].cycles, tasks[1].cycles)
    /\ Lt32(globalCycles, U32(track.cap - track.base))
    /\ LET C1 == runOpcode(Core, 1, cost, effect, Quiet)
           g == Add32(globalCycles, U32(C1.ret))
       IN  /\ globalCycles' = g
           /\ interpreter' = [C1.interpreter EXCEPT ![1].cycles = g]
           /\ tasks' = C1.tasks
           /\ last' = [op |-> "opcode", cpu |-> 1, ret |-> C1.ret, at |-> globalCycles]
    /\ UNCHANGED <<pc, running, track>>
    /\ DriveFrame

\* The inner loop's test fails and globalCycles is left where the CPUs
\* took it
DriveJumpStay ==
    /\ pc = "inner"
    /\ IF gbaMode
       THEN ~(interpreter[1].halted = 0 /\ Lt32(interpreter[1].cycles, tasks[1].cycles))
       ELSE ~Lt32(globalCycles, tasks[1].cycles)
    /\ Le32(tasks[1].cycles, U32(track.cap - track.base))
    /\ pc' = "batch"
    /\ last' = NoCall
    /\ track' = [track EXCEPT !.batch = 0]
    /\ UNCHANGED <<interpreter, tasks, globalCycles, running>>
    /\ DriveFrame

\* The inner loop's test fails: globalCycles = tasks[0].cycles
DriveJump ==
    /\ pc = "inner"
    /\ IF gbaMode
       THEN ~(interpreter[1].halted = 0 /\ Lt32(interpreter[1].cycles, tasks[1].cycles))
       ELSE ~Lt32(globalCycles, tasks[1].cycles)
    /\ Le32(tasks[1].cycles, U32(track.cap - track.base))
    /\ globalCycles' = tasks[1].cycles
    /\ pc' = "batch"
    /\ last' = NoCall
    /\ track' = IF globalCycles' = globalCycles THEN [track EXCEPT !.batch = 0]
                ELSE [track EXCEPT !.batch = 0,
                                   !.low = Min32(@, globalCycles'),
                                   !.win = FALSE, !.g0 = Zero32, !.n9 = 0, !.n7 = 0]
    /\ UNCHANGED <<interpreter, tasks, running>>
    /\ DriveFrame

\* while (tasks[0].cycles <= globalCycles) { call tasks[0]; erase it }
DriveFire(effect) ==
    /\ pc = "batch"
    /\ Due(tasks[1].cycles, globalCycles)
    /\ LET C1 == Invoke(Core, tasks[1].task, effect)
           up == IF gbaMode THEN {}
                 ELSE {c \in CPUs : interpreter[c].halted # 0
                                    /\ C1.interpreter[c].halted = 0}
       IN  /\ interpreter' = C1.interpreter
           /\ tasks' = Erase(C1.tasks)
           /\ globalCycles' = C1.globalCycles
           /\ last' = [op |-> "fire", entry |-> tasks[1], queue |-> tasks,
                       at |-> globalCycles, prev |-> track.prev, low |-> track.low,
                       erased |-> C1.tasks[1]]
           /\ track' = IF C1.interpreter = interpreter /\ C1.globalCycles = globalCycles
                       THEN [track EXCEPT !.prev = tasks[1].cycles,
                                          !.low = tasks[1].cycles,
                                          !.batch = @ + 1]
                       ELSE [track EXCEPT !.prev = C1.tasks[1].cycles,
                                          !.low = C1.tasks[1].cycles,
                                          !.batch = @ + 1,
                                          !.base = @ + Num(globalCycles) - Num(C1.globalCycles),
                                          !.woken = @ \cup up,
                                          !.win = FALSE, !.g0 = Zero32,
                                          !.n9 = 0, !.n7 = 0]
    /\ UNCHANGED <<pc, running>>
    /\ DriveFrame

\* The batch loop's test fails: back to the top-of-loop test
DriveBatchEnd ==
    /\ pc = "batch"
    /\ ~Due(tasks[1].cycles, globalCycles)
    /\ pc' = "top"
    /\ last' = NoCall
    /\ UNCHANGED <<interpreter, tasks, globalCycles, running, track>>
    /\ DriveFrame

\* No store of false is made once this many have been
StopMaxStores == 2

\* The frame function has returned and the frontend calls it again
FrameCall ==
    /\ pc = "done"
    /\ pc' = "top"
    /\ track' = [track EXCEPT !.stopAt = "none"]
    /\ UNCHANGED <<interpreter, tasks, globalCycles, running, last>>
    /\ DriveFrame

\* Where the drive loop is: at a loop test of the frame function, in the
\* CPU run, or in the batch
Phase ==
    IF pc \in {"top", "done"} THEN "test"
    ELSE IF pc = "batch" THEN "batch" ELSE "cpu"

\* Another thread stores running = false, whatever running holds
Stop ==
    /\ track.stores < StopMaxStores
    /\ running' = FALSE
    /\ track' = [track EXCEPT !.stopAt = Phase,
                              !.stores = @ + 1,
                              !.pending = @ + 1,
                              !.merged = IF track.pending > 0 THEN @ + 1 ELSE @]
    /\ UNCHANGED <<interpreter, tasks, globalCycles, pc, last>>
    /\ DriveFrame

DriveNext ==
    \/ DriveTop
    \/ \E cost \in 1..MaxCost, effect \in OpEffects : NdsArm9(cost, effect)
    \/ \E cost \in 1..MaxCost, effect \in OpEffects : NdsArm7(cost, effect)
    \/ NdsCount
    \/ GbaBump
    \/ \E cost \in 1..MaxCost, effect \in OpEffects \ {"ipc"} : GbaRun(cost, effect)
    \/ DriveJump
    \/ \E effect \in TickEffects :
          /\ effect.op = "irq" /\ gbaMode => effect.cpu = 1
          /\ DriveFire(effect)
    \/ DriveBatchEnd

SpecDrive == DriveInit /\ [][DriveNext]_vars

\* The drive loops entered while the ARM9 is in its interrupt handler
SpecOrder == OrderInit /\ [][DriveNext]_vars

\* What an opcode does while another thread may stop the loop
StopEffects == {"none", "halt"}

StopNext ==
    \/ DriveTop
    \/ \E cost \in 1..MaxCost, effect \in StopEffects : NdsArm9(cost, effect)
    \/ \E cost \in 1..MaxCost, effect \in StopEffects : NdsArm7(cost, effect)
    \/ NdsCount
    \/ GbaBump
    \/ \E cost \in 1..MaxCost, effect \in StopEffects : GbaRun(cost, effect)
    \/ DriveJump
    \/ \E effect \in TickEffects :
          /\ effect.op = "irq" /\ gbaMode => effect.cpu = 1
          /\ DriveFire(effect)
    \/ DriveBatchEnd
    \/ FrameCall
    \/ Stop

SpecStop == StopInit /\ [][StopNext]_vars

-----------------------------------------------------------------------------
(* The drive loops' claims *)

\* Entry a comes before entry b in the order (cycle stamp, insertion rank)
Before(a, b) ==
    Lt32(a.cycles, b.cycles) \/ (a.cycles = b.cycles /\ a.id < b.id)

\* C2 as stated: in both drive loops a task with a smaller stamp is always
\* invoked before one with a larger stamp, so the stamps of the tasks invoked
\* one after the other never decrease.
C2_StampOrder == last.op = "fire" => Le32(last.prev, last.entry.cycles)

\* C2: in both drive loops a task is invoked only when no queued task has a
\* smaller stamp, or the same stamp and an earlier insertion; its stamp is
\* not below the lowest value globalCycles has taken since the task before
\* it was invoked, so that stamps decrease from one invocation to the next
\* only when globalCycles fell back in between; and when the batch has
\* ended no task stamped at or before globalCycles is left, so that a
\* delay-0 task a firing task scheduled was invoked within that batch,
\* behind the tasks queued before it.
C2_TaskOrder ==
    /\ last.op = "fire" =>
          /\ \A i \in 1..Len(last.queue) :
                last.queue[i] # last.entry => Before(last.entry, last.queue[i])
          /\ Le32(last.low, last.entry.cycles)
          /\ last.low = last.prev => Le32(last.prev, last.entry.cycles)
          /\ last.entry.task.kind = "event" => last.entry.cycles = last.at
    /\ pc = "top" => \A i \in 1..Len(tasks) : Lt32(globalCycles, tasks[i].cycles)

\* A one-shot event that a scanline tick scheduled with delay 0 has just been
\* invoked in the batch of its stamp, behind the task invoked before it and
\* ahead of an entry inserted earlier with a larger stamp
C2_Witness ==
    /\ last.op = "fire"
    /\ last.entry.task.kind = "event"
    /\ last.prev = last.entry.cycles
    /\ \E i \in 1..Len(last.queue) :
          /\ last.queue[i].id < last.entry.id
          /\ Lt32(last.entry.cycles, last.queue[i].cycles)

\* The points of the NDS loop where no opcode is executing: after an
\* inner-loop iteration, after the fast-forward, after a batch
Between ==
    /\ ~gbaMode
    /\ \/ pc \in {"inner", "top"}
       \/ pc = "batch" /\ last = NoCall

\* C3 as stated: at every such point globalCycles <= min(c9, c7), a halted
\* CPU counting as the maximum value, also after a batch in which an
\* interrupt task cleared a CPU's halt flag.
C3_BoundEverywhere ==
    Between => Le32(globalCycles, Min32(Horizon(interpreter[0]), Horizon(interpreter[1])))

\* C3: at every such point globalCycles is at most the counter of every
\* unhalted CPU, except a CPU whose halt flag was cleared and that has not
\* run an opcode since.
C3_BoundUnlessWoken ==
    Between =>
        \A c \in CPUs :
            interpreter[c].halted = 0 /\ c \notin track.woken
                => Le32(globalCycles, interpreter[c].cycles)

\* The batch is over, the ARM9's halt flag was cleared in it by an interrupt
\* task and its counter is behind globalCycles; the ARM7 is within the bound
C3_Witness ==
    /\ ~gbaMode
    /\ pc = "top"
    /\ track.woken = {0}
    /\ interpreter[0].halted = 0
    /\ Lt32(interpreter[0].cycles, globalCycles)
    /\ interpreter[1].halted = 0
    /\ Le32(globalCycles, interpreter[1].cycles)

\* The step is the core's cycle rebase: the rebase task is invoked
Rebase == pc = "batch" /\ tasks[1].task.kind = "reset" /\ pc' = "batch"

\* C4 as stated: with no cycle rebase, no assignment lowers globalCycles.
C4_NeverDecreases == [][~Rebase => Le32(globalCycles, globalCycles')]_vars

\* C4: apart from the cycle rebase, globalCycles is lowered by two
\* assignments only: the fast-forward
\* globalCycles = tasks[0].cycles, and the NDS minimum when it takes the
\* counter of a CPU whose halt flag was cleared and that has not run since.
\* The GBA bump and accumulation, and every other minimum, do not lower it.
C4_LoweredOnlyBy ==
    [][~Rebase /\ Lt32(globalCycles', globalCycles) =>
          \/ pc = "inner" /\ pc' = "batch" /\ globalCycles' = tasks[1].cycles
          \/ /\ pc = "count"
             /\ \E c \in track.woken :
                   /\ interpreter[c].halted = 0
                   /\ globalCycles' = interpreter[c].cycles]_vars

\* The fast-forward has just set globalCycles back: both CPUs are unhalted
\* and the counters of both are past the stamp of the task now due
C4_Witness ==
    /\ ~gbaMode
    /\ pc = "batch"
    /\ last = NoCall
    /\ track.woken = {}
    /\ \A c \in CPUs :
          interpreter[c].halted = 0 /\ Lt32(globalCycles, interpreter[c].cycles)

\* C5: in the NDS loop an opcode for which runOpcode returns c leaves the
\* ARM9's counter at globalCycles + c and the ARM7's at globalCycles + 2c; and in a window of
\* N global cycles in which both CPUs stay unhalted, every opcode costs 1 and
\* no task touches the CPUs, the ARM9 has run N opcodes and the ARM7 N/2,
\* rounded down or up.
C5_Pacing ==
    /\ last.op = "opcode" /\ ~gbaMode =>
          interpreter[last.cpu].cycles =
              Add32(last.at, U32(IF last.cpu = 1 THEN 2 * last.ret ELSE last.ret))
    /\ track.win /\ pc \in {"inner", "batch", "top"} =>
          LET N == Num(globalCycles) - Num(track.g0)
          IN  /\ track.n9 = N
              /\ 2 * track.n7 \in {N - 1, N, N + 1}

\* A window of at least four cycles across a batch that touched no CPU
C5_Witness ==
    /\ track.win
    /\ pc = "inner"
    /\ Lt32(track.g0, track.prev)
    /\ Num(globalCycles) - Num(track.g0) >= 4
    /\ track.n9 >= 4
    /\ track.n7 = 2

\* C6: a false stored in running stays until the top-of-loop test that
\* returns; with running false that test leaves the loop and changes neither
\* the queue nor an interpreter nor globalCycles; and the function returns
\* only with the due batch fired, every task left stamped after globalCycles.
C6_StopAtTop ==
    /\ [](pc = "done" => \A i \in 1..Len(tasks) : Lt32(globalCycles, tasks[i].cycles))
    /\ [][/\ ~running /\ running' => pc = "top" /\ pc' = "done"
          /\ ~running /\ pc = "top" /\ pc' # pc =>
                /\ pc' = "done"
                /\ UNCHANGED <<interpreter, tasks, globalCycles>>]_vars

\* runGbaFrame has returned after a stop that arrived during the CPU run of
\* a frame whose opcodes reached the first stamp and whose batch fired two
\* entries
C6_Witness ==
    /\ pc = "done"
    /\ gbaMode
    /\ track.stopAt = "cpu"
    /\ track.prev # Zero32
    /\ track.batch >= 2
    /\ Le32(track.prev, interpreter[1].cycles)
    /\ Len(tasks) >= 1

\* The number of a queue's entries for the task and stamp of entry e
RECURSIVE Entries(_, _)
Entries(q, e) ==
    IF q = <<>> THEN 0
    ELSE (IF Head(q).task = e.task /\ Head(q).cycles = e.cycles THEN 1 ELSE 0)
            + Entries(Tail(q), e)

\* A queue entry as the invocation recorded in l left it: with its stamp
\* rebased by the cycle of the invocation when that was the cycle rebase
Rebased(e, l) ==
    IF l.entry.task.kind = "reset" THEN [e EXCEPT !.cycles = Sub32(@, l.at)] ELSE e

\* The queue the invocation recorded in l started from, as it left it
Requeued(l) == [i \in 1..Len(l.queue) |-> Rebased(l.queue[i], l)]

\* C18: in both drive loops a task is invoked with globalCycles equal to
\* its stamp, whatever the CPUs' counters have reached; the entry erased after
\* the invocation is the entry invoked, and with it the queue holds one entry
\* less for that task and stamp, so no entry fires twice and none is removed
\* unfired. The cycle rebase is a task like the others: it fires at its
\* stamp, and leaves globalCycles and every stamp lower by that stamp.
C18_FiresAtStamp ==
    last.op = "fire" =>
        /\ last.at = last.entry.cycles
        /\ last.entry = last.queue[1]
        /\ last.erased = Rebased(last.entry, last)
        /\ globalCycles = last.erased.cycles
        /\ Entries(tasks, last.erased) = Entries(Requeued(last), last.erased) - 1
        /\ \A i \in 2..Len(last.queue) :
              Entries(tasks, Rebased(last.queue[i], last))
                  >= Entries(Tail(Requeued(last)), Rebased(last.queue[i], last))

\* In the NDS loop both CPUs are running and their opcodes have taken both
\* counters past the stamp of the task that has just fired, with another
\* entry waiting behind it
C18_Witness ==
    /\ last.op = "fire"
    /\ ~gbaMode
    /\ Len(last.queue) >= 2
    /\ \A c \in CPUs : /\ interpreter[c].halted = 0
                        /\ Lt32(last.entry.cycles, interpreter[c].cycles)
    /\ globalCycles = last.entry.cycles

\* C20: running is false exactly while a store of false waits for the
\* top-of-loop test, so the frame function returns with running true unless a
\* store has arrived since; the test returns only on a waiting store and
\* consumes every store waiting, so each store has caused one return, waits
\* for one, or arrived while another was waiting and shares its return; and
\* with running true the test enters the loop.
C20_ExchangeGate ==
    /\ [](/\ running <=> track.pending = 0
          /\ track.stores = track.returns + track.merged
                                + (IF track.pending > 0 THEN 1 ELSE 0)
          /\ track.returns <= track.stores)
    /\ [][/\ pc = "top" /\ pc' = "done" =>
                /\ ~running /\ track.pending >= 1
                /\ running' /\ track'.pending = 0
                /\ track'.returns = track.returns + 1
          /\ pc = "top" /\ running /\ pc' # pc =>
                /\ pc' = IF gbaMode THEN "bump" ELSE "inner"
                /\ running'
                /\ track'.returns = track.returns]_vars

\* Two stores arrived before one top-of-loop test of runGbaFrame, which
\* returned once; called again, the function ran its opcodes up to the first
\* stamp, fired the batch and is back at the top-of-loop test with running true
C20_Witness ==
    /\ gbaMode
    /\ track.stores = 2
    /\ track.merged = 1
    /\ track.returns = 1
    /\ track.pending = 0
    /\ track.prev # Zero32
    /\ track.batch >= 1
    /\ Le32(track.prev, interpreter[1].cycles)
    /\ running
    /\ pc = "top"

-----------------------------------------------------------------------------
(* SpecBank: the register banks. From a constructed interpreter, setCpsr   *)
(* is called with the architecture's modes and handlers write registers    *)
(* through the pointer array.                                              *)

\* Number of register writes in one run
BankMaxWrites == 2

\* The registers written: one below R8, one of R8-R12, R13, R14 and R15
BankRegs == {0, 8, 13, 14, 15}

\* The core once both interpreters are constructed, init() not yet run
Constructed(gba, hle, base) ==
    [interpreter   |-> [c \in CPUs |-> Interpreter(c)],
     tasks         |-> <<>>,
     globalCycles  |-> Zero32,
     gbaMode       |-> gba,
     bios          |-> hle,
     exceptionAddr |-> base,
     memory        |-> {},
     ret           |-> 0]

BankInit ==
    /\ gbaMode = FALSE
    /\ bios = FALSE
    /\ exceptionAddr = W(\hFFFF, 0)
    /\ \E c \in CPUs :
          LET C == Constructed(gbaMode, bios, exceptionAddr)
          IN  /\ interpreter = C.interpreter
              /\ tasks = C.tasks
              /\ globalCycles = C.globalCycles
              /\ track = [cpu |-> c, writes |-> 0, cells |-> C.interpreter[c].regs]
    /\ running = TRUE
    /\ memory = {}
    /\ pc = "calls"
    /\ last = NoCall

BankFrame == UNCHANGED <<running, gbaMode, bios, exceptionAddr, pc, memory, last>>

\* The register cell the mode table gives register n in a mode: R8-R12 in
\* the FIQ bank in FIQ mode, R13 and R14 in the bank of every mode but User
\* and System, everything else in the User bank
TableCell(mode, n) ==
    IF mode = \h11 /\ n \in 8..14 THEN <<"registersFiq", n - 8>>
    ELSE IF n \in 13..14 /\ mode \in {\h12, \h13, \h17, \h1B}
         THEN << CASE mode = \h12 -> "registersIrq"
                   [] mode = \h13 -> "registersSvc"
                   [] mode = \h17 -> "registersAbt"
                   [] OTHER       -> "registersUnd", n - 13 >>
         ELSE <<"registersUsr", n>>

\* CPSR bits 0-4
ModeOf(I) == Lo(I.cpsr) % 32

BankSetCpsr(c, value) ==
    /\ Becomes(setCpsr(Core, c, value, FALSE))
    /\ UNCHANGED track
    /\ BankFrame

\* *registers[n] = value, made by a handler while the CPU is in one of the
\* architecture's modes
BankWrite(c, n) ==
    /\ track.writes < BankMaxWrites
    /\ ModeOf(interpreter[c]) \in Modes
    /\ LET value == W(\hCAFE, track.writes + 1)
           cell == TableCell(ModeOf(interpreter[c]), n)
       IN  /\ interpreter' = [interpreter EXCEPT ![c] = SetReg(@, n, value)]
           /\ track' = [track EXCEPT !.writes = @ + 1,
                                     !.cells[cell[1]][cell[2]] = value]
    /\ UNCHANGED <<tasks, globalCycles>>
    /\ BankFrame

BankNext ==
    \/ \E mode \in Modes : BankSetCpsr(track.cpu, W(0, mode))
    \/ \E n \in BankRegs : BankWrite(track.cpu, n)

SpecBank == BankInit /\ [][BankNext]_vars

\* C11: in each of the seven modes, register n is the cell the mode table
\* gives, so R0-R7 and R15 are the same cells in every mode, and every
\* register reads the value last written to its cell, whatever modes were
\* entered since.
C11_BankTable ==
    LET I == interpreter[track.cpu]
    IN  ModeOf(I) \in Modes =>
            \A n \in 0..15 :
                /\ I.registers[n] = TableCell(ModeOf(I), n)
                /\ Reg(I, n) = track.cells[TableCell(ModeOf(I), n)[1]][TableCell(ModeOf(I), n)[2]]

\* R13 was written in Supervisor mode and R14 in FIQ mode, and the CPU is
\* back in Supervisor mode reading its R13
C11_Witness ==
    LET I == interpreter[track.cpu]
    IN  /\ ModeOf(I) = \h13
        /\ track.writes = 2
        /\ Reg(I, 13) = W(\hCAFE, 1)
        /\ I.regs.registersFiq[6] = W(\hCAFE, 2)
        /\ Reg(I, 14) = Zero32

-----------------------------------------------------------------------------
(* SpecMode: one interpreter from its construction, through init(),         *)
(* directBoot(), setCpsr with values of every kind (the seven modes and     *)
(* mode numbers the switch does not know, status and flag bits set or      *)
(* clear), exception entries, the HLE BIOS's IRQ entry, the handler's return *)
(* and runOpcode, which finishes the HLE IRQ on the BIOS's return opcode.   *)

\* No call is made once this many have been
ModeMaxCalls == 3

\* Mode numbers the switch of setCpsr has no case for
UnknownModes == {\h00, \h05}

\* The values setCpsr is called with
ModeValues ==
    {W(0, m) : m \in Modes \cup UnknownModes}
        \cup {W(\hF000, \hE0 + m) : m \in {\h10, \h12, \h05}}

ModeInit ==
    /\ gbaMode = FALSE
    /\ bios \in BOOLEAN
    /\ exceptionAddr = W(\hFFFF, 0)
    /\ \E c \in CPUs :
          LET C == Constructed(gbaMode, bios, exceptionAddr)
          IN  /\ interpreter = C.interpreter
              /\ tasks = C.tasks
              /\ globalCycles = C.globalCycles
              /\ track = [cpu |-> c, calls |-> 0]
    /\ running = TRUE
    /\ memory = {}
    /\ pc = "calls"
    /\ last = NoCall

ModeFrame == UNCHANGED <<running, gbaMode, bios, exceptionAddr, pc>>

\* One call of an interpreter function, counted and recorded
ModeCall(op, c, arg, C) ==
    /\ track.calls < ModeMaxCalls
    /\ Becomes(C)
    /\ memory' = C.memory
    /\ track' = [track EXCEPT !.calls = @ + 1]
    /\ last' = [op |-> op, cpu |-> c, arg |-> arg,
                 before |-> [cpsr |-> interpreter[c].cpsr, spsr |-> interpreter[c].spsr]]
    /\ ModeFrame

ModeCallInit(c) == ModeCall("init", c, 0, init(Core, c))

ModeCallDirectBoot(c) == ModeCall("directBoot", c, 0, directBoot(Core, c))

ModeCallSetCpsr(c, value) == ModeCall("setCpsr", c, value, setCpsr(Core, c, value, FALSE))

ModeCallException(c, vector) == ModeCall("exception", c, vector, exception(Core, c, vector))

\* The HLE BIOS enters the guest's IRQ handler
ModeCallHandleHleIrq(c) ==
    /\ bios
    /\ ModeCall("handleHleIrq", c, 0, handleHleIrq(Core, c))

\* The guest's IRQ handler returns to the address handleHleIrq left in R14
ModeReturn(c) ==
    /\ bios
    /\ Becomes(Branch(Core, c, HleSentinel(c)))
    /\ UNCHANGED <<memory, track, last>>
    /\ ModeFrame

\* runOpcode; in ARM state with the HLE BIOS's return opcode in pipeline[0]
\* it ends in finishHleIrq
ModeCallRunOpcode(c, wait) ==
    LET I == interpreter[c]
        finishing == bios /\ ~TestBit(I.cpsr, 5) /\ I.pipeline[1] = HleReturn
    IN  /\ wait # "none" => finishing
        /\ ModeCall(IF finishing THEN "finishHleIrq" ELSE "runOpcode", c, wait,
                    runOpcode(Core, c, 1, "none", [Quiet EXCEPT !.wait = wait]))

ModeNext ==
    \/ ModeCallInit(track.cpu)
    \/ ModeCallDirectBoot(track.cpu)
    \/ \E value \in ModeValues : ModeCallSetCpsr(track.cpu, value)
    \/ \E vector \in Vectors : ModeCallException(track.cpu, vector)
    \/ ModeCallHandleHleIrq(track.cpu)
    \/ ModeReturn(track.cpu)
    \/ \E wait \in WaitOutcomes : ModeCallRunOpcode(track.cpu, wait)

SpecMode == ModeInit /\ [][ModeNext]_vars

\* The SPSR the mode table gives a mode
TableSpsr(mode) ==
    CASE mode = \h11 -> "spsrFiq"
      [] mode = \h12 -> "spsrIrq"
      [] mode = \h13 -> "spsrSvc"
      [] mode = \h17 -> "spsrAbt"
      [] mode = \h1B -> "spsrUnd"
      [] OTHER       -> "nullptr"

\* C12 as stated: the spsr reference is null if and only if CPSR bits 0-4
\* are 0x10 or 0x1F.
C12_NullIffUserOrSystem ==
    LET I == interpreter[track.cpu]
    IN  I.spsr = "nullptr" <=> ModeOf(I) \in {\h10, \h1F}

\* C12: in User and System mode the spsr reference is null, and while CPSR
\* bits 0-4 are one of the seven modes the reference is null only in those
\* two (it is the SPSR of the mode); under a mode number the switch does not
\* know the reference is whatever the last known mode left, null included.
C12_NullInUserOrSystem ==
    LET I == interpreter[track.cpu]
    IN  /\ ModeOf(I) \in {\h10, \h1F} => I.spsr = "nullptr"
        /\ ModeOf(I) \in Modes => I.spsr = TableSpsr(ModeOf(I))

\* The HLE IRQ has finished and restored System mode, with no SPSR
C12_Witness ==
    LET I == interpreter[track.cpu]
    IN  /\ last.op = "finishHleIrq"
        /\ ModeOf(last.before) = \h12
        /\ last.before.spsr = "spsrIrq"
        /\ ModeOf(I) = \h1F
        /\ I.spsr = "nullptr"

-----------------------------------------------------------------------------
(* SpecPipe: one interpreter, booted and branched to guest code in ARM or   *)
(* THUMB state, running opcodes that leave R15 and CPSR.T alone, taking     *)
(* branches (a write of R15 and a flush) and exceptions. Guest memory is   *)
(* never written.                                                           *)

\* No step is taken once this many have been
PipeMaxSteps == 3

\* Branch targets: aligned, at the top of the address space, and unaligned
PipeAddresses == CodeAddresses \cup {W(\h0200, \h0803)}

PipeInit ==
    /\ gbaMode = FALSE
    /\ bios = FALSE
    /\ exceptionAddr = W(\hFFFF, 0)
    /\ \E c \in CPUs, bits \in {Zero32, BIT(5)}, address \in PipeAddresses :
          LET C1 == setCpsr(Booted(gbaMode, bios, exceptionAddr), c,
                            Or32(bits, W(0, \h1F)), FALSE)
              C == Branch(C1, c, address)
          IN  /\ interpreter = C.interpreter
              /\ tasks = C.tasks
              /\ globalCycles = C.globalCycles
              /\ track = [cpu |-> c, steps |-> 0]
    /\ running = TRUE
    /\ memory = {}
    /\ pc = "between"
    /\ last = NoCall

PipeFrame == UNCHANGED <<running, gbaMode, bios, exceptionAddr, pc, memory>>

\* One step of the interpreter, counted; what it started from is recorded
PipeStep(op, c, C) ==
    /\ track.steps < PipeMaxSteps
    /\ Becomes(C)
    /\ track' = [track EXCEPT !.steps = @ + 1]
    /\ last' = [op |-> op, cpu |-> c,
                opcode |-> interpreter[c].pipeline[1],
                r15    |-> Reg(interpreter[c], 15),
                thumb  |-> TestBit(interpreter[c].cpsr, 5)]
    /\ PipeFrame

\* An opcode whose handler writes neither R15 nor CPSR.T
PipeRunOpcode(c) == PipeStep("runOpcode", c, runOpcode(Core, c, 1, "none", Quiet))

PipeFlushPipeline(c) == PipeStep("flushPipeline", c, flushPipeline(Core, c))

\* A handler that writes R15 and flushes
PipeBranch(c, address) == PipeStep("branch", c, Branch(Core, c, address))

PipeException(c, vector) == PipeStep("exception", c, exception(Core, c, vector))

PipeNext ==
    \/ PipeRunOpcode(track.cpu)
    \/ PipeFlushPipeline(track.cpu)
    \/ \E address \in PipeAddresses : PipeBranch(track.cpu, address)
    \/ \E vector \in Vectors : PipeException(track.cpu, vector)

SpecPipe == PipeInit /\ [][PipeNext]_vars

\* The opcode width of the CPU's state, as a word
Width(I) == IF TestBit(I.cpsr, 5) THEN U32(2) ELSE U32(4)

\* memory.read<width>(cpu, address) in the CPU's state
Fetched(I, c, address) ==
    IF TestBit(I.cpsr, 5) THEN MemLoad16(Core, c, address) ELSE MemLoad32(Core, c, address)

\* C13: between opcodes pipeline[0] is the opcode at R15 - width and
\* pipeline[1] the opcode at R15; and the opcode runOpcode executes is the one
\* pipeline[0] held, fetched from A = (R15 before) - width, while R15 is
\* (R15 before) + width = A + 2 * width, that is A + 8 in ARM state and A + 4
\* in THUMB state.
C13_PipelineAhead ==
    LET c == track.cpu
        I == interpreter[c]
    IN  /\ I.pipeline[1] = Fetched(I, c, Sub32(Reg(I, 15), Width(I)))
        /\ I.pipeline[2] = Fetched(I, c, Reg(I, 15))
        /\ last.op = "runOpcode" =>
              /\ TestBit(I.cpsr, 5) = last.thumb
              /\ Reg(I, 15) = Add32(last.r15, Width(I))
              /\ last.opcode = Fetched(I, c, Sub32(last.r15, Width(I)))
              /\ Reg(I, 15) = Add32(Sub32(last.r15, Width(I)),
                                    IF last.thumb THEN U32(4) ELSE U32(8))

\* Two opcodes in a row have run in THUMB state after an exception-free
\* start, and two in ARM state after an exception entry
C13_Witness ==
    LET I == interpreter[track.cpu]
    IN  /\ last.op = "runOpcode"
        /\ track.steps >= 2
        /\ last.opcode # I.pipeline[1]
        /\ ( \/ last.thumb /\ Lo(last.opcode) = Lo(Sub32(Reg(I, 15), U32(4)))
             \/ ~last.thumb /\ ModeOf(I) = \h12
                            /\ last.opcode = MemRead32(track.cpu, Sub32(Reg(I, 15), U32(8))) )

\* The steps that end with flushPipeline
Flushes == {"flushPipeline", "branch", "exception"}

\* C14 as stated: after flushPipeline, pipeline[0] = read(PC - 2 * width) and
\* pipeline[1] = read(PC - width), PC being R15 after the flush.
C14_TwoBehind ==
    LET c == track.cpu
        I == interpreter[c]
    IN  last.op \in Flushes =>
            /\ I.pipeline[1] = Fetched(I, c, Sub32(Reg(I, 15), Add32(Width(I), Width(I))))
            /\ I.pipeline[2] = Fetched(I, c, Sub32(Reg(I, 15), Width(I)))

\* C14: after flushPipeline, R15 is aligned to the width and one width past
\* the address the flush found in it, pipeline[0] = read(PC - width) and
\* pipeline[1] = read(PC), PC being R15 after the flush.
C14_OneBehind ==
    LET c == track.cpu
        I == interpreter[c]
    IN  last.op \in Flushes =>
            /\ And32(Reg(I, 15), Sub32(Width(I), U32(1))) = Zero32
            /\ last.op = "flushPipeline" =>
                  Reg(I, 15) = Add32(And32(last.r15, Not32(Sub32(Width(I), U32(1)))), Width(I))
            /\ I.pipeline[1] = Fetched(I, c, Sub32(Reg(I, 15), Width(I)))
            /\ I.pipeline[2] = Fetched(I, c, Reg(I, 15))
            /\ I.pipeline[1] # I.pipeline[2]

\* A flush in THUMB state after an opcode has run, and one in ARM state on
\* an unaligned branch target
C14_Witness ==
    LET I == interpreter[track.cpu]
    IN  /\ last.op \in Flushes
        /\ track.steps >= 2
        /\ \/ last.op = "flushPipeline" /\ last.thumb
           \/ last.op = "branch" /\ ~last.thumb /\ Reg(I, 15) = W(\h0200, \h0804)

-----------------------------------------------------------------------------
(* SpecPost: the POSTFLG registers of both booted interpreters under the    *)
(* guest's byte writes.                                                     *)

\* No write is made once this many have been
PostMaxWrites == 3

\* The bytes written: every combination of bits 0 and 1, with the other six
\* bits clear or set
PostValues == {0, 1, 2, 3, \hFC, \hFD, \hFE, \hFF}

PostInit ==
    /\ gbaMode = FALSE
    /\ bios = FALSE
    /\ exceptionAddr = W(\hFFFF, 0)
    /\ LET C == Booted(gbaMode, bios, exceptionAddr)
       IN  /\ interpreter = C.interpreter
           /\ tasks = C.tasks
           /\ globalCycles = C.globalCycles
    /\ track = [writes |-> 0]
    /\ running = TRUE
    /\ memory = {}
    /\ pc = "ready"
    /\ last = NoCall

PostFrame == UNCHANGED <<running, gbaMode, bios, exceptionAddr, pc, memory>>

PostWrite(c, value) ==
    /\ track.writes < PostMaxWrites
    /\ Becomes(writePostFlg(Core, c, value))
    /\ track' = [track EXCEPT !.writes = @ + 1]
    /\ last' = [op |-> "writePostFlg", cpu |-> c, arg |-> value,
                before |-> interpreter[c].postFlg,
                other |-> interpreter[1 - c].postFlg]
    /\ PostFrame

PostNext == \E c \in CPUs, value \in PostValues : PostWrite(c, value)

SpecPost == PostInit /\ [][PostNext]_vars

\* Bit n of a byte
ByteBit(b, n) == (b \div Pow2(n)) % 2

\* C16: a write never takes POSTFLG bit 0 from 1 to 0 (it sets it when the
\* value's bit 0 is set); on the ARM9 bit 1 is bit 1 of the value written,
\* on the ARM7 bit 1 is as it was; bits 2-7 are clear on both CPUs.
C16_PostFlgBits ==
    /\ \A c \in CPUs : interpreter[c].postFlg \in 0..3
    /\ last.op = "writePostFlg" =>
          LET p == interpreter[last.cpu].postFlg
          IN  /\ ByteBit(p, 0) = IF ByteBit(last.arg, 0) = 1 THEN 1 ELSE ByteBit(last.before, 0)
              /\ ByteBit(p, 0) >= ByteBit(last.before, 0)
              /\ last.cpu = 0 => ByteBit(p, 1) = ByteBit(last.arg, 1)
              /\ last.cpu = 1 => ByteBit(p, 1) = ByteBit(last.before, 1)
              /\ interpreter[1 - last.cpu].postFlg = last.other

\* The ARM7 has had 0xFF written and shows bit 0 alone; the ARM9 has had
\* both bits set and then 0xFC written: bit 0 stays, bit 1 is cleared
C16_Witness ==
    /\ last.op = "writePostFlg"
    /\ last.cpu = 0
    /\ last.before = 3
    /\ last.arg = \hFC
    /\ interpreter[0].postFlg = 1
    /\ interpreter[1].postFlg = 1

-----------------------------------------------------------------------------
(* SpecRes: one interpreter in ARM state whose next opcode is of the        *)
(* reserved condition (or, for contrast, of a plain one), with the HLE BIOS *)
(* active or not and the DLDI stub patched or not; with the HLE BIOS active *)
(* the opcode may be met as the first of the guest's IRQ handler.           *)

\* No call is made once this many have been
ResMaxCalls == 2

\* Opcodes of the reserved condition besides the HLE return opcode and the
\* six of the DLDI stub: BLX forward and backward, and three that are no BLX
ResOpcodes ==
    {W(\hFA00, 2), W(\hFBFF, \hFFFE), W(\hF000, 6), W(\hF123, \h4567), W(\hFF00, 1)}

\* Opcodes of other conditions: one that fails while Z is clear (EQ) and one
\* that holds (NE)
PlainOpcodes == {W(\h0A00, 2), W(\h1A00, 2)}

\* The opcodes the guest's code may hold where the CPU meets it
MetOpcodes == ResOpcodes \cup {HleReturn} \cup DldiOpcodes \cup PlainOpcodes

\* Where that opcode lies; the guest's IRQ handler begins there too
ResCode == W(\h0200, \h0800)

\* What a DLDI callback returns
DldiResults == {Zero32, W(0, 1)}

\* The link register's value when the opcode is met: ARM and THUMB callers
ResLinks == {W(\h0200, \h0900), W(\h0200, \h0A01)}

ResInit ==
    /\ gbaMode = FALSE
    /\ bios \in BOOLEAN
    /\ exceptionAddr = W(\hFFFF, 0)
    /\ \E c \in CPUs, patched \in BOOLEAN, link \in ResLinks, opcode \in MetOpcodes :
          LET C1 == directBoot(Booted(gbaMode, bios, exceptionAddr), c)
              C2 == [C1 EXCEPT !.interpreter[c] =
                         SetReg(SetReg(@, 14, link), 0, W(\hCAFE, 0))]
              C3 == MemWrite32(MemWrite32(C2, c, ResCode, opcode),
                               c, HandlerPointer(c), ResCode)
              C == Branch(C3, c, ResCode)
          IN  /\ interpreter = C.interpreter
              /\ tasks = C.tasks
              /\ globalCycles = C.globalCycles
              /\ memory = C.memory
              /\ track = [cpu |-> c, patched |-> patched, calls |-> 0]
    /\ running = TRUE
    /\ pc = "calls"
    /\ last = NoCall

ResFrame == UNCHANGED <<running, gbaMode, bios, exceptionAddr, pc>>

\* The HLE BIOS enters the guest's IRQ handler, in ARM state
ResHandleHleIrq(c) ==
    /\ bios
    /\ track.calls < ResMaxCalls
    /\ ~TestBit(interpreter[c].cpsr, 5)
    /\ LET C == handleHleIrq(Core, c)
       IN  /\ Becomes(C)
           /\ memory' = C.memory
           /\ last' = [op |-> "handleHleIrq", cpu |-> c, ret |-> C.ret]
    /\ track' = [track EXCEPT !.calls = @ + 1]
    /\ ResFrame

\* runOpcode on the opcode in pipeline[0]; under the reserved condition it is
\* handleReserved that runs, entered with the core runOpcode has advanced
ResRunOpcode(c, result, wait) ==
    LET I == interpreter[c]
        opcode == I.pipeline[1]
        reserved == ~TestBit(I.cpsr, 5) /\ Condition(opcode, I.cpsr) = 2
        C == runOpcode(Core, c, MaxCost, "none",
                       [patched |-> track.patched, result |-> result, wait |-> wait])
    IN  /\ track.calls < ResMaxCalls
        /\ result # Zero32 => reserved /\ opcode \in DldiOpcodes
        /\ wait # "none" => reserved /\ opcode = HleReturn
        /\ Becomes(C)
        /\ memory' = C.memory
        /\ last' = [op |-> IF reserved THEN "handleReserved" ELSE "runOpcode",
                    cpu |-> c, arg |-> opcode,
                    ret |-> C.ret, result |-> result, wait |-> wait,
                    core |-> Advance(Core, c)]
        /\ track' = [track EXCEPT !.calls = @ + 1]
        /\ ResFrame

ResNext ==
    \/ ResHandleHleIrq(track.cpu)
    \/ \E result \in DldiResults, wait \in WaitOutcomes :
          ResRunOpcode(track.cpu, result, wait)

SpecRes == ResInit /\ [][ResNext]_vars

\* The state is what core value C describes, and the call returned C.ret
After(C) ==
    /\ interpreter = C.interpreter
    /\ tasks = C.tasks
    /\ globalCycles = C.globalCycles
    /\ memory = C.memory
    /\ last.ret = C.ret

\* C17 as stated: handleReserved takes the BLX pattern first, then the HLE
\* return opcode when the HLE BIOS is active, then, with DLDI patched, the six
\* DLDI opcodes (callback result in R0, BX R14); every other opcode, whether
\* or not DLDI is patched, costs 1 and changes nothing.
C17_ReservedOrder ==
    last.op = "handleReserved" =>
        LET c == last.cpu
            opcode == last.arg
            C == last.core
        IN  CASE IsBlxLabel(opcode) -> After(blx(C, c, opcode))
              [] ~IsBlxLabel(opcode) /\ bios /\ opcode = HleReturn ->
                    After(finishHleIrq(C, c, last.wait))
              [] ~IsBlxLabel(opcode) /\ ~(bios /\ opcode = HleReturn)
                    /\ track.patched /\ opcode \in DldiOpcodes ->
                    /\ After(bx([C EXCEPT !.interpreter[c] = SetReg(@, 0, last.result)],
                                c, 14))
                    /\ Reg(interpreter[c], 0) = last.result
              [] OTHER -> After([C EXCEPT !.ret = 1])

\* C17 as the code has it: as stated for the BLX pattern, the HLE return
\* opcode and the six DLDI opcodes; an opcode that is none of these costs 1
\* and changes nothing only while DLDI is not patched, and with DLDI patched
\* it is a BX R14 with R0 left alone.
C17_ReservedAsCoded ==
    last.op = "handleReserved" =>
        LET c == last.cpu
            opcode == last.arg
            C == last.core
        IN  CASE IsBlxLabel(opcode) -> After(blx(C, c, opcode))
              [] ~IsBlxLabel(opcode) /\ bios /\ opcode = HleReturn ->
                    After(finishHleIrq(C, c, last.wait))
              [] ~IsBlxLabel(opcode) /\ ~(bios /\ opcode = HleReturn)
                    /\ track.patched /\ opcode \in DldiOpcodes ->
                    /\ After(bx([C EXCEPT !.interpreter[c] = SetReg(@, 0, last.result)],
                                c, 14))
                    /\ Reg(interpreter[c], 0) = last.result
              [] ~IsBlxLabel(opcode) /\ ~(bios /\ opcode = HleReturn)
                    /\ track.patched /\ opcode \notin DldiOpcodes ->
                    /\ After(bx(C, c, 14))
                    /\ last.ret = 3
                    /\ Reg(interpreter[c], 0) = Reg(C.interpreter[c], 0)
              [] OTHER -> After([C EXCEPT !.ret = 1])

\* With DLDI patched, an opcode that is neither BLX nor a DLDI opcode has
\* been met and has branched to R14, into THUMB state
C17_Witness ==
    /\ last.op = "handleReserved"
    /\ track.patched
    /\ last.arg = W(\hF123, \h4567)
    /\ last.ret = 3
    /\ TestBit(interpreter[last.cpu].cpsr, 5)
    /\ Reg(interpreter[last.cpu], 15) = W(\h0200, \h0A02)

-----------------------------------------------------------------------------
(* SpecHle: the HLE BIOS's IRQ round trip on one interpreter. The guest is  *)
(* interrupted between two opcodes in any of the seven modes, in ARM or     *)
(* THUMB state; the handler, in IRQ mode, runs opcodes and overwrites the   *)
(* registers it may use, leaving R13, the stacked words and SPSR_irq alone; *)
(* then it returns to the address in the BIOS it was given, where runOpcode *)
(* meets the HLE return opcode.                                             *)

\* The handler writes no register once it has written this many
HleMaxWrites == 2

\* The registers a handler is free to overwrite
HleScratch == {0, 1, 2, 3, 12, 14}

\* The interrupted program's registers: every cell holds its own name
HleFill(I) ==
    [I EXCEPT !.regs =
        [registersUsr |-> [i \in 0..15 |-> IF i \in {13, 15} THEN I.regs.registersUsr[i]
                                                             ELSE W(\h0A00, i)],
         registersFiq |-> [i \in 0..6 |-> W(\h0B00, i)],
         registersIrq |-> [i \in 0..1 |-> IF i = 0 THEN I.regs.registersIrq[i]
                                                   ELSE W(\h0C00, i)],
         registersSvc |-> [i \in 0..1 |-> W(\h0D00, i)],
         registersAbt |-> [i \in 0..1 |-> W(\h0E00, i)],
         registersUnd |-> [i \in 0..1 |-> W(\h0F00, i)]]]

HleInit ==
    /\ gbaMode = FALSE
    /\ bios = TRUE
    /\ exceptionAddr = W(\hFFFF, 0)
    /\ \E c \in CPUs, mode \in Modes, bits \in {Zero32, BIT(5), W(\h8000, \h20)},
          address \in CodeAddresses :
          LET C1 == directBoot(Booted(gbaMode, bios, exceptionAddr), c)
              C2 == [C1 EXCEPT !.interpreter[c] = HleFill(@)]
              C3 == setCpsr(C2, c, Or32(bits, W(0, mode)), FALSE)
              C == Branch(C3, c, address)
          IN  /\ interpreter = C.interpreter
              /\ tasks = C.tasks
              /\ globalCycles = C.globalCycles
              /\ track = [cpu |-> c, writes |-> 0, pre |-> C.interpreter[c]]
    /\ running = TRUE
    /\ memory = {}
    /\ pc = "guest"
    /\ last = NoCall

HleFrame == UNCHANGED <<running, gbaMode, bios, exceptionAddr>>

\* The HLE BIOS takes the interrupt and enters the guest's handler
HleEnter(c) ==
    /\ pc = "guest"
    /\ LET C == handleHleIrq(Core, c)
       IN  /\ Becomes(C)
           /\ memory' = C.memory
           /\ last' = [op |-> "handleHleIrq", cpu |-> c, ret |-> C.ret]
    /\ pc' = "handler"
    /\ UNCHANGED track
    /\ HleFrame

\* The handler overwrites a register it is free to use
HleWrite(c, n) ==
    /\ pc = "handler"
    /\ track.writes < HleMaxWrites
    /\ interpreter' = [interpreter EXCEPT ![c] = SetReg(@, n, W(\hDEAD, n))]
    /\ track' = [track EXCEPT !.writes = @ + 1]
    /\ last' = [op |-> "write", cpu |-> c, ret |-> 0]
    /\ UNCHANGED <<tasks, globalCycles, memory, pc>>
    /\ HleFrame

\* The handler returns to the address handleHleIrq left in R14
HleLeave(c) ==
    /\ pc = "handler"
    /\ Becomes(Branch(Core, c, HleSentinel(c)))
    /\ last' = [op |-> "return", cpu |-> c, ret |-> 0]
    /\ pc' = "leaving"
    /\ UNCHANGED <<memory, track>>
    /\ HleFrame

\* runOpcode meets the HLE return opcode the handler has returned to
HleFinish(c, wait) ==
    /\ pc = "leaving"
    /\ LET C == runOpcode(Core, c, 1, "none", [Quiet EXCEPT !.wait = wait])
       IN  /\ Becomes(C)
           /\ memory' = C.memory
           /\ last' = [op |-> "finishHleIrq", cpu |-> c, ret |-> C.ret]
    /\ pc' = "resumed"
    /\ UNCHANGED track
    /\ HleFrame

HleNext ==
    \/ HleEnter(track.cpu)
    \/ \E n \in HleScratch : HleWrite(track.cpu, n)
    \/ HleLeave(track.cpu)
    \/ \E wait \in WaitOutcomes : HleFinish(track.cpu, wait)

SpecHle == HleInit /\ [][HleNext]_vars

\* After the round trip the CPSR, R0-R3, R12, R13, R15 and the pipeline are
\* what they were, and the IRQ-mode R13 is back where it was before the push
Resumed(I, pre) ==
    /\ I.cpsr = pre.cpsr
    /\ I.registers = pre.registers
    /\ I.spsr = pre.spsr
    /\ \A n \in {0, 1, 2, 3, 12, 13, 15} : Reg(I, n) = Reg(pre, n)
    /\ I.regs.registersIrq[0] = pre.regs.registersIrq[0]
    /\ I.pipeline = pre.pipeline

\* C19 as stated: after handleHleIrq and finishHleIrq the CPSR, R0-R3, R12,
\* the interrupted mode's R13 and R14, the IRQ-mode R13, R15 and the pipeline
\* have their pre-interrupt values, whatever mode was interrupted.
C19_RoundTripAnyMode ==
    pc = "resumed" =>
        LET I == interpreter[track.cpu]
        IN  /\ Resumed(I, track.pre)
            /\ Reg(I, 14) = Reg(track.pre, 14)

\* C19: the round trip restores the CPSR, R0-R3, R12, R13, the IRQ-mode R13,
\* R15 and the pipeline from every mode, and the interrupted mode's R14 from
\* every mode but IRQ; interrupted in IRQ mode, R14 comes back as the return
\* address handleHleIrq put in it (R15, plus 2 in THUMB state).
C19_RoundTrip ==
    pc = "resumed" =>
        LET I == interpreter[track.cpu]
            pre == track.pre
        IN  /\ Resumed(I, pre)
            /\ ModeOf(pre) # \h12 => Reg(I, 14) = Reg(pre, 14)
            /\ ModeOf(pre) = \h12 =>
                  Reg(I, 14) = Add32(Reg(pre, 15),
                                     IF TestBit(pre.cpsr, 5) THEN U32(2) ELSE Zero32)
            /\ memory # {}

\* A THUMB program in Supervisor mode has been interrupted, the handler has
\* overwritten R0 and R14, and the program has resumed
C19_Witness ==
    LET I == interpreter[track.cpu]
    IN  /\ pc = "resumed"
        /\ track.writes = 2
        /\ ModeOf(track.pre) = \h13
        /\ TestBit(I.cpsr, 5)
        /\ I.spsrs.spsrIrq = I.cpsr
        /\ I.regs.registersIrq[1] # track.pre.regs.registersIrq[1]
        /\ Reg(I, 0) = W(\h0A00, 0)
        /\ Reg(I, 14) = W(\h0D00, 1)

====
